---------------------------- MODULE Spec2Model ----------------------------
(***************************************************************************)
(* A model of the Pokemon PWA: the service worker of                       *)
(* public/pokemonWorker.js (cache storage, fetch interception, background  *)
(* sync, push, the message bridge) and the application's retrying fetch    *)
(* of src/App.tsx.                                                         *)
(*                                                                         *)
(* URLs are sequences of tokens whose concatenation is the string: a path   *)
(* is "/", its directories (each ending in "/"), then the stem and the     *)
(* extension of the file name; includes, startsWith and === are computed   *)
(* on the tokens. Message texts are sequences of characters.               *)
(***************************************************************************)
EXTENDS Integers, Sequences, FiniteSets, TLC

VARIABLES
    \* ---- fetchWithRetry (src/App.tsx) ----
    maxRetries,     \* the maxRetries argument of the call
    attempt,        \* the loop variable
    frPc,           \* where the call is: "fetch", "delay", "returned", "thrown"
    aborted,        \* signal.aborted
    results,        \* what each started fetch(url, {signal}) ended with, in order
    delays,         \* the delays of the setTimeout waits that have elapsed, in order
    netAttempts,    \* fetches that went to the network
    frOutcome,      \* what the call returned or threw
    abortMark,      \* <<number of elapsed waits, netAttempts>> when the signal fired
    \* ---- the App component (src/App.tsx) ----
    page,           \* the list's React state, its observer and its fetchPokemons call
    \* ---- the service worker (public/pokemonWorker.js) ----
    swState,        \* lifecycle: "parsed", "installing", "installed", "activating", "activated"
    cacheNames,     \* the names of the buckets of the origin's cache storage
    cacheEntries,   \* per bucket name, its entries [url, status]
    toDelete,       \* activate: the caches.delete calls not yet settled
    claimed,        \* activate: clients.claim() has settled
    preActivate,    \* cacheNames and cacheEntries when the activate event was dispatched
    fetches,        \* the fetch events being handled, per slot
    puts,           \* the unawaited caches.open(...).then(cache.put) chains not yet settled
    watch,          \* the request whose interceptions the history variables follow
    firstEnd,       \* how the first interception of the watched request ended
    putLive,        \* an interceptor write of the watched URL has completed and is still stored
    syncTags,       \* per tag, the pending background-sync registrations
    run,            \* the sync event being handled
    timers,         \* the delays of the pending retry timers of syncPokemonData
    clients,        \* per window: "closed", "controlled", "uncontrolled"
    inbox,          \* per window, the types of the messages posted to it and not yet handled
    msg,            \* the USER_MESSAGE being handled
    push,           \* the push event being handled
    classified,     \* a call of getResourceType and of the switch that follows it
    click,          \* the notificationclick event being handled
    toasts,         \* the toast list of the App component, its timers and the clock
    \* ---- the push server (server/push-server.js) ----
    registry,       \* the subscriptions array and the notify-all requests in progress
    \* ---- the network ----
    api             \* "up" or "down": whether the catalog API can be reached

retryVars == <<maxRetries, attempt, frPc, aborted, results, delays,
               netAttempts, frOutcome, abortMark>>

cacheVars == <<cacheNames, cacheEntries>>
activateVars == <<toDelete, claimed, preActivate>>
fetchVars == <<fetches, puts, watch, firstEnd, putLive>>
syncVars == <<syncTags, run, timers>>
clientVars == <<clients, inbox>>
bridgeVars == <<msg, push>>
workerVars == <<swState, cacheVars, activateVars, fetchVars, syncVars, clientVars, bridgeVars>>
\* what the lifecycle, fetch and sync handlers leave alone
appVars == <<page>>
extraVars == <<classified, click, toasts, registry, api>>
otherVars == <<retryVars, appVars, bridgeVars, extraVars>>

vars == <<retryVars, appVars, workerVars, extraVars>>

\* ------------------------------------------------------------------ bounds
MaxRetriesBound == 3
MaxFetches == 1
MaxClients == 2
MaxResults == 1
MaxTimers == 1
MaxPages == 2
MaxPageFetches == 4
MaxDetails == 2
MaxToasts == 2
MaxTicks == 2
MaxSubscriptions == 3
MaxNotifies == 2

\* --------------------------------------------------------- small helpers
Min(a, b) == IF a < b THEN a ELSE b

None == [kind |-> "none"]

\* Response.ok of the Fetch standard: a status in 200..299.
ResponseOkRedirects(status) == status >= 200 /\ status <= 399
ResponseOk(status) == status >= 200 /\ status <= 299


(***************************************************************************)
(* URLs and requests seen by the service worker                            *)
(***************************************************************************)
\* line 2-4
CACHE_NAME == "pokemon-pwa-v1"
STATIC_CACHE == "pokemon-static-v1"
API_CACHE == "pokemon-api-v1"
\* a bucket left by an earlier generation of the static bucket
OLD_STATIC_CACHE == "pokemon-static-v0"
AllCacheNames == {CACHE_NAME, OLD_STATIC_CACHE, STATIC_CACHE, API_CACHE}

\* String.prototype.includes / startsWith on token sequences
Includes(s, token) == \E i \in 1..Len(s) : s[i] = token
StartsWith(s, prefix) ==
    Len(s) >= Len(prefix) /\ SubSeq(s, 1, Len(prefix)) = prefix

\* new URL(event.request.url): hostname, pathname, search
Url(host, path, search) == [hostname |-> host, pathname |-> path, search |-> search]
\* request.url: the serialized URL
Href(u) == <<"https://">> \o u.hostname \o u.pathname \o u.search

DetailId(k) == "detail" \o ToString(k)
DetailIds == {DetailId(k) : k \in 1..MaxResults}
UrlIds == {"list", "/", "/index.html", "/manifest.json", "/vite.svg",
           "/assets/index.js", "/proxy"} \cup DetailIds

\* the URL behind each identifier
UrlOf(id) ==
    CASE id = "list" ->
            \* line 179
            Url(<<"pokeapi.co">>, <<"/", "api/v2/pokemon/">>, <<"?limit=20&offset=0">>)
      [] id = "/" -> Url(<<"localhost">>, <<"/">>, <<>>)
      [] id = "/index.html" -> Url(<<"localhost">>, <<"/", "index", ".html">>, <<>>)
      [] id = "/manifest.json" -> Url(<<"localhost">>, <<"/", "manifest", ".json">>, <<>>)
      [] id = "/vite.svg" -> Url(<<"localhost">>, <<"/", "vite", ".svg">>, <<>>)
      [] id = "/assets/index.js" -> Url(<<"localhost">>, <<"/", "assets/", "index", ".js">>, <<>>)
      [] id = "/proxy" -> Url(<<"localhost">>, <<"/", "proxy">>, <<"?target=", "pokeapi.co">>)
      [] OTHER -> Url(<<"pokeapi.co">>, <<"/", "api/v2/pokemon/", id, "/">>, <<>>)

\* line 7-11
urlsToCache == {"/", "/manifest.json", "/vite.svg"}

\* the requests the pages issue: [method, url, mode]
Request(method, url, mode) == [method |-> method, url |-> url, mode |-> mode]
Requests ==
    { Request("GET", "list", "cors"),
      Request("POST", "list", "cors"),
      Request("GET", "/", "navigate"),
      Request("GET", "/index.html", "navigate"),
      Request("GET", "/assets/index.js", "no-cors"),
      Request("GET", "/vite.svg", "no-cors"),
      Request("GET", "/proxy", "cors") }

\* HTTP statuses the worker's network fetches answer with
NetStatuses == {200, 203, 404}

(***************************************************************************)
(* Resource classification, public/pokemonWorker.js 80-118                 *)
(***************************************************************************)
\* the rules with the assets prefix tested before the host
getResourceTypeStaticFirst(url) ==
    IF StartsWith(url.pathname, <<"/", "assets/">>) THEN "static"
    ELSE IF Includes(url.hostname, "pokeapi.co") THEN "api"
    ELSE IF url.pathname = <<"/">> \/ url.pathname = <<"/", "index", ".html">> THEN "html"
    ELSE "none"

\* lines 80-91
getResourceType(url) ==
    IF Includes(url.hostname, "pokeapi.co") THEN "api"
    ELSE IF StartsWith(url.pathname, <<"/", "assets/">>) THEN "static"
    ELSE IF url.pathname = <<"/">> \/ url.pathname = <<"/", "index", ".html">> THEN "html"
    ELSE "none"

\* lines 97-118: the switch
shouldCache(resourceType) == resourceType \in {"api", "static", "html"}
cacheNameFor(resourceType) == IF resourceType = "api" THEN API_CACHE ELSE STATIC_CACHE

\* the requests the interceptor stores the 200 response of
Cacheable(req) == req.method = "GET" /\ shouldCache(getResourceType(UrlOf(req.url)))

(***************************************************************************)
(* Cache storage                                                           *)
(***************************************************************************)
Entry(url, status) == [method |-> "GET", url |-> url, status |-> status]
EntryOf(req, status) == [method |-> req.method, url |-> req.url, status |-> status]

\* cache.put: the entry replaces one stored under the same request
CachePut(entries, e) == {x \in entries : x.url # e.url \/ x.method # e.method} \cup {e}

\* caches.match(request), line 61 and 149: an entry of any bucket
CachesMatch(url) ==
    UNION {{e \in cacheEntries[b] : e.method = "GET" /\ e.url = url} : b \in cacheNames}


(***************************************************************************)
(* The worker's state when its script has been evaluated                   *)
(***************************************************************************)
ClientIds == 1..MaxClients
FetchIds == 1..MaxFetches

NoRequest == Request("", "", "")
IdleFetch == [pc |-> "idle", req |-> NoRequest, result |-> "", status |-> 0,
              net |-> FALSE, first |-> FALSE, later |-> FALSE, afterPut |-> FALSE,
              registerCalled |-> FALSE]
IdleMessage == [pc |-> "idle", sender |-> 0, text |-> <<>>, port |-> FALSE,
                response |-> [kind |-> "", text |-> <<>>], registerCalled |-> FALSE,
                portReply |-> FALSE, open |-> {}, delivered |-> {}]
IdlePush == [pc |-> "idle", payload |-> None, now |-> 0, notificationData |-> None,
             shown |-> None, broadcast |-> None, unreached |-> {},
             showPending |-> FALSE, broadcastPending |-> FALSE]
\* the tags the sync listener knows (lines 166-168) and a manager holding none
SyncTagNames == {"pokemon-sync", "pokemon-refresh"}
NoRegistrations == [t \in SyncTagNames |-> 0]

IdleRun == [pc |-> "idle", tag |-> "", keys |-> {}, pending |-> {}, fetched |-> 0,
            outcome |-> "",
            before |-> None,     \* the storage as the last refresh event found it
            purge |-> ""]        \* "deleted": a refresh run has deleted its keys;
                                 \* "unrestored": its re-sync failed at the list fetch;
                                 \* "rewritten": a run has since put an entry;
                                 \* "" again once a run has resolved

\* the record of a run that is over: what later runs are measured against stays
RunOver(r) == [IdleRun EXCEPT !.before = r.before, !.purge = r.purge]

\* what the buckets of earlier installations hold
PriorEntries(name) ==
    CASE name = CACHE_NAME -> {Entry("/", 200), Entry("list", 200)}
      [] name = OLD_STATIC_CACHE -> {Entry("/vite.svg", 200)}
      [] name = STATIC_CACHE -> {Entry("/", 200)}
      [] name = API_CACHE -> {Entry("list", 200)}

NoEntries == [n \in AllCacheNames |-> {}]

\* everything of the worker but the cache storage, the lifecycle state and
\* the windows
WorkerQuiet ==
    /\ toDelete = {}
    /\ claimed = FALSE
    /\ preActivate = [names |-> {}, entries |-> NoEntries]
    /\ fetches = [i \in FetchIds |-> IdleFetch]
    /\ puts = {}
    /\ firstEnd = "none"
    /\ putLive = FALSE
    /\ syncTags = NoRegistrations
    /\ run = IdleRun
    /\ timers = <<>>
    /\ inbox = [c \in ClientIds |-> {}]
    /\ msg = IdleMessage
    /\ push = IdlePush

\* no handler has run and no window is open
WorkerRest ==
    /\ WorkerQuiet
    /\ clients = [c \in ClientIds |-> "closed"]

\* the script has been evaluated; the storage holds what earlier installations left
WorkerInit ==
    /\ swState = "parsed"
    /\ watch = NoRequest
    /\ cacheNames \in SUBSET AllCacheNames
    /\ cacheEntries = [n \in AllCacheNames |-> IF n \in cacheNames THEN PriorEntries(n) ELSE {}]
    /\ WorkerRest

\* the worker as far as fetchWithRetry is concerned
WorkerIdle ==
    /\ swState = "parsed"
    /\ watch = NoRequest
    /\ cacheNames = {}
    /\ cacheEntries = NoEntries
    /\ WorkerRest

\* JavaScript's null, and what !!value makes of a value
Null == "null"
Truthy(value) == value \notin {Null, ""}

\* App.tsx 4 and the pages that follow it
PageUrl(k) == "offset" \o ToString((k - 1) * 10)
INITIAL_URL == PageUrl(1)
PageUrls == {PageUrl(k) : k \in 1..MaxPages}

NoObserver == [on |-> FALSE, hasMore |-> FALSE, nextUrl |-> Null]
NoPageRequest == [pc |-> "idle", url |-> Null, append |-> FALSE, next |-> Null,
                  results |-> 0,               \* the entries of the list response
                  left |-> 0,                  \* detail fetches not settled
                  failed |-> FALSE,            \* a detail fetch has thrown
                  cursor |-> <<Null, TRUE>>]   \* nextUrl and hasMore when the call began

\* App.tsx 69-77: the state of the component before it is mounted
IdlePage ==
    [loading |-> TRUE, loadingMore |-> FALSE, error |-> FALSE,
     nextUrl |-> Null, hasMore |-> TRUE, wall |-> FALSE,
     pages |-> 0,                 \* the pages whose cards pokemonDetails holds
     records |-> 0,               \* the length of pokemonDetails
     effect |-> TRUE,             \* the effect of lines 366-372 is due to run
     observer |-> NoObserver,     \* observer.current and the closure of its callback
     req |-> NoPageRequest,       \* the fetchPokemons call in progress
     fetched |-> 0]               \* fetchPokemons calls so far

AppIdle == page = IdlePage

NoClassification == [pc |-> "idle", url |-> None, resourceType |-> "",
                     shouldCache |-> FALSE, cacheName |-> ""]
IdleClick == [pc |-> "idle", action |-> "", data |-> None, urlToOpen |-> <<>>,
              closed |-> FALSE, windows |-> <<>>, focused |-> 0, opened |-> <<>>]

\* App.tsx 86: no toast yet, at time 0
NoToasts == [now |-> 0,
             list |-> <<>>,       \* the toasts state: [n, id], n the toast's serial number
             timers |-> {},       \* the pending setTimeout calls of addToast: [id, due]
             made |-> <<>>,       \* per serial number, when the toast was created
             dismissed |-> {},    \* the serial numbers of the toasts whose close button was clicked
             ticks |-> 0]

\* ---- the push server: line 26, `let subscriptions = []`
NotifyIds == 1..MaxNotifies
IdleNotify == [pc |-> "idle", pending |-> {}]
NoRegistry == [subscriptions |-> <<>>,                     \* the array; an element is [id, endpoint],
                                                          \* id standing for the object's identity
               made |-> 0,                                \* request bodies stored so far
               calls |-> [k \in NotifyIds |-> IdleNotify], \* the notify-all requests
               settled |-> None]                          \* the delivery that settled last

\* no classification asked for, no notification clicked, no toast, no subscription
ExtraIdle ==
    /\ classified = NoClassification
    /\ click = IdleClick
    /\ toasts = NoToasts
    /\ registry = NoRegistry
    /\ api = "up"

\* fetchWithRetry not called
RetryIdle ==
    /\ maxRetries = 0
    /\ attempt = 1
    /\ frPc = "idle"
    /\ aborted = FALSE
    /\ results = <<>>
    /\ delays = <<>>
    /\ netAttempts = 0
    /\ frOutcome = None
    /\ abortMark = <<>>

(***************************************************************************)
(* Windows of the application                                              *)
(***************************************************************************)
\* a window opens: a navigation inside the scope of the active worker is
\* controlled by it; a window opened before the worker is active, or by a
\* forced reload, is not
OpenClient(c) ==
    /\ clients[c] = "closed"
    /\ \E how \in (IF swState \in {"activating", "activated"}
                     THEN {"controlled", "uncontrolled"}
                     ELSE {"uncontrolled"}) :
           clients' = [clients EXCEPT ![c] = how]
    /\ inbox' = [inbox EXCEPT ![c] = {}]

CloseClient(c) ==
    /\ clients[c] # "closed"
    /\ clients' = [clients EXCEPT ![c] = "closed"]
    /\ inbox' = [inbox EXCEPT ![c] = {}]

OpenWindows == {c \in ClientIds : clients[c] # "closed"}

\* the window of the application where only one is opened; it posts its
\* messages without a port (App.tsx 263-278)
AppWindow == CHOOSE c \in ClientIds : \A d \in ClientIds : c <= d

\* self.clients.matchAll() with no options: the window clients this worker controls
MatchAll == {c \in ClientIds : clients[c] = "controlled"}

\* client.postMessage(msg) for every client of the list
PostToAll(list, type) ==
    [c \in ClientIds |-> IF c \in list THEN inbox[c] \cup {type} ELSE inbox[c]]

(***************************************************************************)
(* install, public/pokemonWorker.js 14-28                                  *)
(***************************************************************************)
InstallEvent ==
    /\ swState = "parsed"
    /\ swState' = "installing"
    /\ UNCHANGED <<cacheVars, activateVars, fetchVars, syncVars, clientVars>>

\* caches.open(STATIC_CACHE).then(cache => cache.addAll(urlsToCache)).catch(...)
\* settles: addAll stores all the responses when every one is ok, and nothing
\* otherwise; the catch makes the install succeed either way.
InstallSettles ==
    /\ swState = "installing"
    /\ \/ \* caches.open rejects
          UNCHANGED <<cacheVars>>
       \/ \E got \in [urlsToCache -> NetStatuses \cup {0}] :
            /\ cacheNames' = cacheNames \cup {STATIC_CACHE}
            /\ IF \A u \in urlsToCache : ResponseOk(got[u])
                 THEN /\ cacheEntries' =
                            [cacheEntries EXCEPT ![STATIC_CACHE] =
                                {e \in @ : e.url \notin urlsToCache}
                                    \cup {Entry(u, got[u]) : u \in urlsToCache}]
                 ELSE UNCHANGED <<cacheEntries>>
    /\ swState' = "installed"
    /\ UNCHANGED <<activateVars, fetchVars, syncVars, clientVars>>

(***************************************************************************)
(* activate, public/pokemonWorker.js 30-49                                 *)
(***************************************************************************)
\* line 38, as the previous generation of the worker wrote it
IsOldCacheByCacheName(cacheName) == cacheName # CACHE_NAME
\* line 38
IsOldCache(cacheName) == cacheName # STATIC_CACHE /\ cacheName # API_CACHE

\* the event is dispatched (skipWaiting, line 27); caches.keys() resolves
ActivateEvent ==
    /\ swState = "installed"
    /\ swState' = "activating"
    /\ toDelete' = {n \in cacheNames : IsOldCache(n)}
    /\ claimed' = FALSE
    /\ preActivate' = [names |-> cacheNames, entries |-> cacheEntries]
    /\ UNCHANGED <<cacheVars, fetchVars, syncVars, clientVars>>

\* line 40: one caches.delete(cacheName) settles
ActivateDelete(n) ==
    /\ swState = "activating"
    /\ n \in toDelete
    /\ toDelete' = toDelete \ {n}
    /\ cacheNames' = cacheNames \ {n}
    /\ cacheEntries' = [cacheEntries EXCEPT ![n] = {}]
    /\ UNCHANGED <<swState, claimed, preActivate, fetchVars, syncVars, clientVars>>

\* line 46: self.clients.claim() settles
ClientsClaim ==
    /\ swState = "activating"
    /\ ~claimed
    /\ claimed' = TRUE
    /\ clients' = [c \in ClientIds |-> IF clients[c] = "closed" THEN "closed" ELSE "controlled"]
    /\ UNCHANGED <<swState, cacheVars, toDelete, preActivate, fetchVars, syncVars, inbox>>

\* lines 32-48: the promise given to waitUntil settles
ActivateDone ==
    /\ swState = "activating"
    /\ toDelete = {}
    /\ claimed
    /\ swState' = "activated"
    /\ UNCHANGED <<cacheVars, activateVars, fetchVars, syncVars, clientVars>>

LifecycleNext ==
    \/ InstallEvent /\ UNCHANGED otherVars
    \/ InstallSettles /\ UNCHANGED otherVars
    \/ ActivateEvent /\ UNCHANGED otherVars
    \/ \E n \in AllCacheNames : ActivateDelete(n) /\ UNCHANGED otherVars
    \/ ClientsClaim /\ UNCHANGED otherVars
    \/ ActivateDone /\ UNCHANGED otherVars
    \/ \E c \in ClientIds : OpenClient(c) /\ UNCHANGED <<otherVars, swState, cacheVars, activateVars, fetchVars, syncVars>>
    \/ \E c \in ClientIds : CloseClient(c) /\ UNCHANGED <<otherVars, swState, cacheVars, activateVars, fetchVars, syncVars>>

LifecycleInit == WorkerInit /\ RetryIdle /\ AppIdle /\ ExtraIdle

SpecLifecycle == LifecycleInit /\ [][LifecycleNext]_vars


(***************************************************************************)
(* Claims about activation, checked under SpecLifecycle                    *)
(***************************************************************************)
CurrentCacheNames == {STATIC_CACHE, API_CACHE}

\* C6: when the activate event has completed, every bucket that existed
\* before activation under a name other than the two current ones is gone,
\* and the buckets that existed under the two current names still exist with
\* the entries they had.
C6_ActivatePurgesOldBuckets ==
    swState = "activated" =>
        /\ \A n \in preActivate.names \ CurrentCacheNames : n \notin cacheNames
        /\ \A n \in preActivate.names \cap CurrentCacheNames :
              /\ n \in cacheNames
              /\ cacheEntries[n] = preActivate.entries[n]

C6_Witness ==
    /\ swState = "activated"
    /\ {CACHE_NAME, OLD_STATIC_CACHE, API_CACHE, STATIC_CACHE} \subseteq preActivate.names
    /\ cacheNames = CurrentCacheNames
    /\ cacheEntries[API_CACHE] # {}
    /\ cacheEntries[STATIC_CACHE] # {}

(***************************************************************************)
(* fetch, public/pokemonWorker.js 52-160                                   *)
(***************************************************************************)
FreeFetchId(i) ==
    /\ fetches[i].pc = "idle"
    /\ \A j \in FetchIds : j < i => fetches[j].pc # "idle"

\* the interception in slot i has ended: remember how the first one of its
\* request ended
EndOfFirst(i, how) == IF fetches[i].first THEN how ELSE firstEnd

\* lines 52-61: a page's request reaches the listener
FetchEvent(i, req) ==
    /\ swState = "activated"
    /\ FreeFetchId(i)
    /\ IF req.method # "GET"
         THEN \* line 54-56: not intercepted, the browser fetches it itself
              /\ fetches' = [fetches EXCEPT ![i] =
                    [IdleFetch EXCEPT !.pc = "bypass", !.req = req]]
              /\ UNCHANGED firstEnd
         ELSE /\ fetches' = [fetches EXCEPT ![i] =
                    [IdleFetch EXCEPT !.pc = "match", !.req = req,
                                      !.first = (req = watch /\ firstEnd = "none"),
                                      !.later = (req = watch /\ firstEnd = "net200")]]
              /\ firstEnd' = IF req = watch /\ firstEnd = "none" THEN "running" ELSE firstEnd
    /\ UNCHANGED <<swState, cacheVars, activateVars, puts, watch, putLive, syncVars, clientVars>>

\* lines 61-70: caches.match(event.request) resolves
FetchMatch(i) ==
    /\ fetches[i].pc = "match"
    /\ LET f == fetches[i]
           live == f.req = watch /\ putLive
       IN IF CachesMatch(f.req.url) # {}
            THEN /\ \E e \in CachesMatch(f.req.url) :
                      fetches' = [fetches EXCEPT ![i] =
                          [f EXCEPT !.pc = "done", !.result = "cache",
                                    !.status = e.status, !.afterPut = live]]
                 /\ firstEnd' = EndOfFirst(i, "cache")
            ELSE /\ fetches' = [fetches EXCEPT ![i] =
                          [f EXCEPT !.pc = "network", !.net = TRUE, !.afterPut = live]]
                 /\ UNCHANGED firstEnd
    /\ UNCHANGED <<swState, cacheVars, activateVars, puts, watch, putLive, syncVars, clientVars>>

\* lines 70-131: fetch(event.request) resolves with a response
FetchResponds(i, status) ==
    /\ fetches[i].pc = "network"
    /\ LET f == fetches[i]
           resourceType == getResourceType(UrlOf(f.req.url))
       IN /\ fetches' = [fetches EXCEPT ![i] =
                [f EXCEPT !.pc = "done", !.result = "network", !.status = status]]
          /\ firstEnd' = EndOfFirst(i, IF status = 200 THEN "net200" ELSE "other")
          /\ IF status = 200 /\ shouldCache(resourceType)
               THEN \* lines 120-128, not awaited
                    puts' = puts \cup {[cache |-> cacheNameFor(resourceType),
                                        req |-> f.req, status |-> status]}
               ELSE UNCHANGED puts
    /\ UNCHANGED <<swState, cacheVars, activateVars, watch, putLive, syncVars, clientVars>>

\* the chain awaited and without its catch: a failed write fails the response
PutSettlesFailsResponse(p) ==
    /\ p \in puts
    /\ puts' = puts \ {p}
    /\ fetches' = [i \in FetchIds |->
            IF fetches[i].pc = "done" /\ fetches[i].req = p.req
              THEN [fetches[i] EXCEPT !.result = "error"] ELSE fetches[i]]
    /\ UNCHANGED <<swState, cacheVars, activateVars, watch, firstEnd, putLive, syncVars, clientVars>>

\* lines 121-127: one caches.open(cacheName).then(cache.put) chain settles
PutSettles(p) ==
    /\ p \in puts
    /\ puts' = puts \ {p}
    /\ \/ \* caches.open rejects: logged
          UNCHANGED <<cacheVars, putLive>>
       \/ \* the bucket is opened (created when missing) and cache.put rejects
          /\ cacheNames' = cacheNames \cup {p.cache}
          /\ UNCHANGED <<cacheEntries, putLive>>
       \/ \* the entry is stored
          /\ cacheNames' = cacheNames \cup {p.cache}
          /\ cacheEntries' = [cacheEntries EXCEPT ![p.cache] = CachePut(@, EntryOf(p.req, p.status))]
          /\ putLive' = (putLive \/ p.req = watch)
    /\ UNCHANGED <<swState, activateVars, fetches, watch, firstEnd, syncVars, clientVars>>

\* a manager that adds a registration on every call
RegisteredAgain(tags, tag, ok) == IF ok THEN [tags EXCEPT ![tag] = @ + 1] ELSE tags

\* sync.register(tag) settles: a tag with no pending registration gets one, a
\* tag that has one keeps it, or the call rejects
Registered(tags, tag, ok) ==
    IF ok THEN [tags EXCEPT ![tag] = IF @ = 0 THEN 1 ELSE @] ELSE tags

\* the test of line 137 made on the path alone
IsPokemonApiFailureByPath(req) == Includes(UrlOf(req.url).pathname, "pokeapi.co")

\* line 137: event.request.url.includes('pokeapi.co')
IsPokemonApiFailure(req) == Includes(Href(UrlOf(req.url)), "pokeapi.co")

\* the catch without its navigation branch
FetchFailsRethrows(i) ==
    /\ fetches[i].pc = "network"
    /\ LET f == fetches[i]
       IN /\ IF IsPokemonApiFailure(f.req)
               THEN \E ok \in BOOLEAN : syncTags' = Registered(syncTags, "pokemon-sync", ok)
               ELSE UNCHANGED syncTags
          /\ fetches' = [fetches EXCEPT ![i] =
                  [f EXCEPT !.pc = "done", !.result = "error",
                            !.registerCalled = IsPokemonApiFailure(f.req)]]
          /\ firstEnd' = EndOfFirst(i, "other")
    /\ UNCHANGED <<swState, cacheVars, activateVars, puts, watch, putLive,
                   run, timers, clientVars>>

\* lines 133-157: fetch(event.request) rejects
FetchFails(i) ==
    /\ fetches[i].pc = "network"
    /\ LET f == fetches[i]
       IN /\ IF IsPokemonApiFailure(f.req)
               THEN \E ok \in BOOLEAN : syncTags' = Registered(syncTags, "pokemon-sync", ok)
               ELSE UNCHANGED syncTags
          /\ IF f.req.mode = "navigate"
               THEN /\ fetches' = [fetches EXCEPT ![i] =
                          [f EXCEPT !.pc = "fallback",
                                    !.registerCalled = IsPokemonApiFailure(f.req)]]
                    /\ UNCHANGED firstEnd
               ELSE /\ fetches' = [fetches EXCEPT ![i] =
                          [f EXCEPT !.pc = "done", !.result = "error",
                                    !.registerCalled = IsPokemonApiFailure(f.req)]]
                    /\ firstEnd' = EndOfFirst(i, "other")
    /\ UNCHANGED <<swState, cacheVars, activateVars, puts, watch, putLive,
                   run, timers, clientVars>>

\* lines 149-154: caches.match('/') resolves
FetchFallback(i) ==
    /\ fetches[i].pc = "fallback"
    /\ LET f == fetches[i]
       IN IF CachesMatch("/") # {}
            THEN \E e \in CachesMatch("/") :
                    fetches' = [fetches EXCEPT ![i] =
                        [f EXCEPT !.pc = "done", !.result = "shell", !.status = e.status]]
            ELSE fetches' = [fetches EXCEPT ![i] =
                        [f EXCEPT !.pc = "done", !.result = "offline", !.status = 503]]
    /\ firstEnd' = EndOfFirst(i, "other")
    /\ UNCHANGED <<swState, cacheVars, activateVars, puts, watch, putLive, syncVars, clientVars>>

\* the page has its answer
FetchRelease(i) ==
    /\ fetches[i].pc \in {"done", "bypass"}
    /\ fetches' = [fetches EXCEPT ![i] = IdleFetch]
    /\ UNCHANGED <<swState, cacheVars, activateVars, puts, watch, firstEnd, putLive,
                   syncVars, clientVars>>


(***************************************************************************)
(* sync, public/pokemonWorker.js 163-255                                   *)
(***************************************************************************)
\* line 192: pokemonUrls.slice(0, 10)
SyncDetailLimit == 10

\* line 226: the delay of the retry timer, in milliseconds
SyncRetryDelay == 30000

SyncCompleteMessage ==
    [type |-> "SYNC_COMPLETE", data |-> "Pokemon data synced successfully"]

\* a page (or the developer tools) registers the refresh tag; the worker
\* itself registers only 'pokemon-sync'
RegisterRefresh ==
    /\ swState = "activated"
    /\ syncTags["pokemon-refresh"] = 0
    /\ syncTags' = Registered(syncTags, "pokemon-refresh", TRUE)
    /\ UNCHANGED <<swState, cacheVars, activateVars, fetchVars, run, timers, clientVars>>

\* lines 136-145 and 369-372: a failed catalog request or a user message
\* registers 'pokemon-sync'
RegisterSync ==
    /\ swState = "activated"
    /\ syncTags' = Registered(syncTags, "pokemon-sync", TRUE)
    /\ UNCHANGED <<swState, cacheVars, activateVars, fetchVars, run, timers, clientVars>>

\* lines 163-171: the host fires a pending registration
SyncEvent(tag) ==
    /\ swState = "activated"
    /\ run.pc = "idle"
    /\ syncTags[tag] > 0
    /\ Len(timers) < MaxTimers
    /\ syncTags' = [syncTags EXCEPT ![tag] = @ - 1]
    /\ run' = IF tag = "pokemon-sync"
                 THEN [RunOver(run) EXCEPT !.tag = tag, !.pc = "list"]
                 ELSE [RunOver(run) EXCEPT !.tag = tag, !.pc = "refresh", !.before = cacheEntries]
    /\ UNCHANGED <<swState, cacheVars, activateVars, fetchVars, timers, clientVars>>

\* the event's promise rejected: the host may keep the registration pending
\* to fire it again
HostRetry(tags, tag, again) == Registered(tags, tag, again)

\* lines 237-238: caches.open(API_CACHE) and cache.keys() resolve
RefreshKeys ==
    /\ run.pc = "refresh"
    /\ \/ /\ cacheNames' = cacheNames \cup {API_CACHE}
          /\ run' = [run EXCEPT !.pc = "deleting",
                        !.keys = {e.url : e \in {x \in cacheEntries[API_CACHE] :
                                      Includes(Href(UrlOf(x.url)), "pokeapi.co")}}]
          /\ UNCHANGED syncTags
       \/ \* caches.open rejects: lines 251-254 rethrow
          /\ run' = [RunOver(run) EXCEPT !.outcome = "rejected"]
          /\ \E again \in BOOLEAN : syncTags' = HostRetry(syncTags, run.tag, again)
          /\ UNCHANGED cacheNames
    /\ UNCHANGED <<swState, cacheEntries, activateVars, fetchVars, timers, clientVars>>

\* the re-sync started with nothing deleted
RefreshDeleteNothing ==
    /\ run.pc = "deleting"
    /\ run' = [run EXCEPT !.pc = "list", !.keys = {}, !.purge = "deleted"]
    /\ UNCHANGED <<swState, cacheVars, activateVars, fetchVars, syncTags, timers, clientVars>>

\* the deletes with the detail entries left in the bucket
RefreshDeleteListOnly ==
    /\ run.pc = "deleting"
    /\ cacheEntries' = [cacheEntries EXCEPT ![API_CACHE] = {e \in @ : e.url # "list"}]
    /\ run' = [run EXCEPT !.pc = "list", !.keys = {}, !.purge = "deleted"]
    /\ UNCHANGED <<swState, cacheNames, activateVars, fetchVars, syncTags, timers, clientVars>>

\* lines 241-249: the deletes settle; when all of them resolved the re-sync
\* starts with its fetch (line 180), when one rejected the run rethrows
\* (lines 251-254) with the entries deleted so far gone
RefreshDelete ==
    /\ run.pc = "deleting"
    /\ \E deleted \in SUBSET run.keys :
          /\ cacheEntries' = [cacheEntries EXCEPT ![API_CACHE] = {e \in @ : e.url \notin deleted}]
          /\ putLive' = (putLive /\ watch.url \notin deleted)
          /\ IF deleted = run.keys
               THEN /\ run' = [run EXCEPT !.pc = "list", !.keys = {}, !.purge = "deleted"]
                    /\ UNCHANGED syncTags
               ELSE /\ run' = [RunOver(run) EXCEPT !.outcome = "rejected"]
                    /\ \E again \in BOOLEAN : syncTags' = HostRetry(syncTags, run.tag, again)
    /\ UNCHANGED <<swState, cacheNames, activateVars, fetches, puts, watch, firstEnd,
                   timers, clientVars>>

\* a catch block that rethrows without arming the timer
SyncCatchNoRearm ==
    /\ timers' = timers
    /\ run' = [RunOver(run) EXCEPT !.outcome = "rejected", !.fetched = run.fetched,
                   !.purge = IF @ = "deleted" THEN "unrestored" ELSE @]
    /\ \E again \in BOOLEAN : syncTags' = HostRetry(syncTags, run.tag, again)

\* lines 220-228: the catch block of syncPokemonData; the run ends rejected
\* and keeps, for the record, the status of the list response it had got
SyncCatch ==
    /\ timers' = Append(timers, SyncRetryDelay)
    /\ run' = [RunOver(run) EXCEPT !.outcome = "rejected", !.fetched = run.fetched,
                   !.purge = IF @ = "deleted" THEN "unrestored" ELSE @]
    /\ \E again \in BOOLEAN : syncTags' = HostRetry(syncTags, run.tag, again)

\* line 180: the fetch of the list page settles
SyncListSettles ==
    /\ run.pc = "list"
    /\ \/ \E status \in NetStatuses :
             IF ResponseOk(status)
               THEN /\ run' = [run EXCEPT !.pc = "store", !.fetched = status,
                                   !.purge = IF @ = "deleted" THEN "" ELSE @]
                    /\ UNCHANGED <<timers, syncTags>>
               ELSE \* line 217
                    SyncCatch
       \/ \* the fetch rejects
          SyncCatch
    /\ UNCHANGED <<swState, cacheVars, activateVars, fetchVars, clientVars>>

\* what a put of a run makes of the purge on record
Rewritten(purge) == IF purge = "unrestored" THEN "rewritten" ELSE purge

\* lines 183-185: the bucket is opened and the list page stored
SyncListStored ==
    /\ run.pc = "store"
    /\ \/ \* caches.open or cache.put rejects
          /\ SyncCatch
          /\ UNCHANGED <<cacheVars, putLive>>
       \/ /\ cacheNames' = cacheNames \cup {API_CACHE}
          /\ cacheEntries' = [cacheEntries EXCEPT ![API_CACHE] =
                                 CachePut(@, Entry("list", run.fetched))]
          /\ run' = [run EXCEPT !.pc = "parse", !.purge = Rewritten(@)]
          /\ UNCHANGED <<putLive, timers, syncTags>>
    /\ UNCHANGED <<swState, activateVars, fetches, puts, watch, firstEnd, clientVars>>

\* lines 188-192: the body is parsed and the detail fetches are started
SyncListParsed ==
    /\ run.pc = "parse"
    /\ \/ \* response.json() rejects or the body has no results
          SyncCatch
       \/ \E n \in 0..MaxResults :
             /\ run' = [run EXCEPT !.pc = "details",
                  !.pending = {DetailId(k) : k \in 1..Min(n, SyncDetailLimit)}]
             /\ UNCHANGED <<timers, syncTags>>
    /\ UNCHANGED <<swState, cacheVars, activateVars, fetchVars, clientVars>>

\* lines 192-202: one detail fetch settles
SyncDetailSettles(url) ==
    /\ run.pc = "details"
    /\ url \in run.pending
    /\ \/ \E status \in NetStatuses :
             \/ /\ ResponseOk(status)
                /\ cacheEntries' = [cacheEntries EXCEPT ![API_CACHE] =
                                       CachePut(@, Entry(url, status))]
                /\ run' = [run EXCEPT !.pending = @ \ {url}, !.purge = Rewritten(@)]
             \/ \* not ok, or cache.put rejects (caught at line 199)
                /\ run' = [run EXCEPT !.pending = @ \ {url}]
                /\ UNCHANGED <<cacheEntries>>
       \/ \* the fetch rejects
          /\ run' = [run EXCEPT !.pending = @ \ {url}]
          /\ UNCHANGED <<cacheEntries>>
    /\ UNCHANGED <<swState, cacheNames, activateVars, fetchVars, syncTags, timers, clientVars>>

\* lines 204-214: the join resolves, the clients are told
SyncBroadcast ==
    /\ run.pc = "details"
    /\ run.pending = {}
    /\ inbox' = PostToAll(MatchAll, SyncCompleteMessage.type)
    /\ run' = [RunOver(run) EXCEPT !.outcome = "resolved", !.purge = ""]
    /\ UNCHANGED <<swState, cacheVars, activateVars, fetchVars, syncTags, timers, clients>>

\* lines 224-226: a retry timer fires
TimerFires ==
    /\ timers # <<>>
    /\ timers' = Tail(timers)
    /\ \E ok \in BOOLEAN : syncTags' = Registered(syncTags, "pokemon-sync", ok)
    /\ UNCHANGED <<swState, cacheVars, activateVars, fetchVars, run,
                   clientVars>>

(***************************************************************************)
(* The active worker                                                       *)
(***************************************************************************)
\* the worker after a first installation and activation: the static bucket
\* holds the shell when addAll succeeded
ActiveInit ==
    /\ swState = "activated"
    /\ cacheNames = {STATIC_CACHE}
    /\ \E stored \in BOOLEAN :
          cacheEntries = [NoEntries EXCEPT ![STATIC_CACHE] =
              IF stored THEN {Entry(u, 200) : u \in urlsToCache} ELSE {}]
    /\ WorkerRest
    /\ RetryIdle
    /\ AppIdle
    /\ ExtraIdle

\* the active worker handling fetch events
FetchInit ==
    /\ watch \in {r \in Requests : Cacheable(r)}
    /\ ActiveInit

FetchNext ==
    \/ \E i \in FetchIds, req \in Requests : FetchEvent(i, req) /\ UNCHANGED otherVars
    \/ \E i \in FetchIds : FetchMatch(i) /\ UNCHANGED otherVars
    \/ \E i \in FetchIds, status \in NetStatuses : FetchResponds(i, status) /\ UNCHANGED otherVars
    \/ \E p \in puts : PutSettles(p) /\ UNCHANGED otherVars
    \/ \E i \in FetchIds : FetchFails(i) /\ UNCHANGED otherVars
    \/ \E i \in FetchIds : FetchFallback(i) /\ UNCHANGED otherVars
    \/ \E i \in FetchIds : FetchRelease(i) /\ UNCHANGED otherVars

SpecFetch == FetchInit /\ [][FetchNext]_vars

\* the same handlers with no request singled out
InterceptInit ==
    /\ watch = NoRequest
    /\ ActiveInit

\* one request of each kind the handler tells apart: the catalog list, the
\* two shell documents, an asset, and a request of another host that names
\* the catalog host in its query
InterceptRequests ==
    { Request("GET", "list", "cors"),
      Request("GET", "/", "navigate"),
      Request("GET", "/index.html", "navigate"),
      Request("GET", "/assets/index.js", "no-cors"),
      Request("GET", "/proxy", "cors") }

InterceptNext ==
    \/ \E i \in FetchIds, req \in InterceptRequests : FetchEvent(i, req) /\ UNCHANGED otherVars
    \/ \E i \in FetchIds : FetchMatch(i) /\ UNCHANGED otherVars
    \/ \E i \in FetchIds, status \in NetStatuses : FetchResponds(i, status) /\ UNCHANGED otherVars
    \/ \E p \in puts : PutSettles(p) /\ UNCHANGED otherVars
    \/ \E i \in FetchIds : FetchFails(i) /\ UNCHANGED otherVars
    \/ \E i \in FetchIds : FetchFallback(i) /\ UNCHANGED otherVars
    \/ \E i \in FetchIds : FetchRelease(i) /\ UNCHANGED otherVars

SpecIntercept == InterceptInit /\ [][InterceptNext]_vars

\* the active worker handling sync events
SyncInit ==
    /\ watch = NoRequest
    /\ ActiveInit

SyncNext ==
    \/ RegisterRefresh /\ UNCHANGED otherVars
    \/ RegisterSync /\ UNCHANGED otherVars
    \/ \E tag \in SyncTagNames : SyncEvent(tag) /\ UNCHANGED otherVars
    \/ RefreshKeys /\ UNCHANGED otherVars
    \/ RefreshDelete /\ UNCHANGED otherVars
    \/ SyncListSettles /\ UNCHANGED otherVars
    \/ SyncListStored /\ UNCHANGED otherVars
    \/ SyncListParsed /\ UNCHANGED otherVars
    \/ \E url \in DetailIds : SyncDetailSettles(url) /\ UNCHANGED otherVars
    \/ SyncBroadcast /\ UNCHANGED otherVars
    \/ TimerFires /\ UNCHANGED otherVars
    \/ \E c \in ClientIds : OpenClient(c) /\ UNCHANGED <<otherVars, swState, cacheVars, activateVars, fetchVars, syncVars>>
    \/ \E c \in ClientIds : CloseClient(c) /\ UNCHANGED <<otherVars, swState, cacheVars, activateVars, fetchVars, syncVars>>

SpecSync == SyncInit /\ [][SyncNext]_vars

\* the sync events of both tags with one window of the application
RefreshInit ==
    /\ watch = NoRequest
    /\ ActiveInit

RefreshNext ==
    \/ RegisterRefresh /\ UNCHANGED otherVars
    \/ RegisterSync /\ UNCHANGED otherVars
    \/ \E tag \in SyncTagNames : SyncEvent(tag) /\ UNCHANGED otherVars
    \/ RefreshKeys /\ UNCHANGED otherVars
    \/ RefreshDelete /\ UNCHANGED otherVars
    \/ SyncListSettles /\ UNCHANGED otherVars
    \/ SyncListStored /\ UNCHANGED otherVars
    \/ SyncListParsed /\ UNCHANGED otherVars
    \/ \E url \in DetailIds : SyncDetailSettles(url) /\ UNCHANGED otherVars
    \/ SyncBroadcast /\ UNCHANGED otherVars
    \/ TimerFires /\ UNCHANGED otherVars
    \/ OpenClient(AppWindow) /\ UNCHANGED <<otherVars, swState, cacheVars, activateVars, fetchVars, syncVars>>

SpecRefresh == RefreshInit /\ [][RefreshNext]_vars

(***************************************************************************)
(* getResourceType applied to a URL, public/pokemonWorker.js 78-118        *)
(***************************************************************************)
ClassifyHosts ==
    { <<"pokeapi.co">>, <<"beta.", "pokeapi.co">>, <<"pokeapi.co", ".example.org">>,
      <<"localhost">>, <<"cdn.example.org">> }
ClassifyPaths ==
    { <<"/">>,
      <<"/", "index", ".html">>,
      <<"/", "docs/", "index", ".html">>,
      <<"/", "assets/", "index", ".js">>,
      <<"/", "assets/", "data">>,
      <<"/", "static/", "assets/", "app", ".js">>,
      <<"/", "main", ".js">>,
      <<"/", "style", ".css">>,
      <<"/", "vite", ".svg">>,
      <<"/", "icons/", "logo", ".png">>,
      <<"/", "favicon", ".ico">>,
      <<"/", "manifest", ".json">>,
      <<"/", "api/v2/pokemon/">> }
ClassifyUrls ==
    {Url(host, path, search) :
        host \in ClassifyHosts, path \in ClassifyPaths, search \in {<<>>, <<"?v=", "pokeapi.co">>}}

\* lines 78 and 95-118: the URL of the request is classified and the switch
\* sets shouldCache and cacheName
Classify ==
    /\ classified.pc = "call"
    /\ LET resourceType == getResourceType(classified.url)
       IN classified' = [classified EXCEPT
              !.pc = "done",
              !.resourceType = resourceType,
              !.shouldCache = shouldCache(resourceType),
              !.cacheName = IF shouldCache(resourceType) THEN cacheNameFor(resourceType)
                                                         ELSE ""]
    /\ UNCHANGED <<retryVars, appVars, workerVars, click, toasts, registry, api>>

ClassifyInit ==
    /\ classified \in {[NoClassification EXCEPT !.pc = "call", !.url = url] : url \in ClassifyUrls}
    /\ click = IdleClick
    /\ toasts = NoToasts
    /\ registry = NoRegistry
    /\ api = "up"
    /\ WorkerIdle
    /\ RetryIdle
    /\ AppIdle

ClassifyNext == Classify

SpecClassify == ClassifyInit /\ [][ClassifyNext]_vars

\* what the rules are stated on
OnApiHost(url) == \E i \in 1..Len(url.hostname) : url.hostname[i] = "pokeapi.co"
UnderAssets(url) == Len(url.pathname) >= 2 /\ url.pathname[1] = "/" /\ url.pathname[2] = "assets/"
StaticExtensions == {".js", ".css", ".svg", ".png", ".ico"}
HasStaticExtension(url) == url.pathname[Len(url.pathname)] \in StaticExtensions
RootOrDocument(url) == url.pathname \in {<<"/">>, <<"/", "index", ".html">>}

\* C14: every classified URL gets exactly one of the four classes: 'api' when
\* its host is the catalog API host, whatever its path; 'html' (the shell)
\* when it is not on that host and its path is the root or /index.html; 'none'
\* when it is not on that host, not under /assets/, has no static extension
\* and is not the root or /index.html.
C14_ClassificationRules ==
    classified.pc = "done" =>
        LET url == classified.url
        IN /\ classified.resourceType \in {"api", "static", "html", "none"}
           /\ OnApiHost(url) => classified.resourceType = "api"
           /\ (~OnApiHost(url) /\ RootOrDocument(url)) => classified.resourceType = "html"
           /\ (~OnApiHost(url) /\ ~UnderAssets(url) /\ ~HasStaticExtension(url)
                  /\ ~RootOrDocument(url)) => classified.resourceType = "none"

\* a URL on the API host whose path looks static has been classified 'api'
C14_Witness ==
    /\ classified.pc = "done"
    /\ classified.url = Url(<<"beta.", "pokeapi.co">>, <<"/", "assets/", "index", ".js">>, <<>>)
    /\ classified.resourceType = "api"
    /\ classified.cacheName = API_CACHE

\* C15 (as claimed): a URL not on the catalog API host whose path begins with
\* /assets/ or ends in a static extension (.js, .css, .svg, .png, .ico) is
\* classified 'static' and its 200 response goes to the static bucket.
C15_StaticByPrefixOrExtension ==
    ( /\ classified.pc = "done"
      /\ ~OnApiHost(classified.url)
      /\ UnderAssets(classified.url) \/ HasStaticExtension(classified.url) )
    => ( /\ classified.resourceType = "static"
         /\ classified.shouldCache
         /\ classified.cacheName = STATIC_CACHE )

(***************************************************************************)
(* Claims about the interceptor's failure paths, checked under             *)
(* SpecIntercept                                                           *)
(***************************************************************************)
\* the step in which the network fetch of slot i rejects
NetworkFails(i) ==
    /\ fetches[i].pc = "network"
    /\ fetches'[i].pc # "network"
    /\ fetches'[i].result # "network"

RootIsCached == \E n \in cacheNames : \E e \in cacheEntries[n] : e.url = "/"

\* C17: when the network fetch of an intercepted navigation request rejects,
\* the interceptor does not rethrow but looks up '/', and it answers with the
\* cached entry of '/' when there is one and with a synthesized response of
\* status 503 otherwise.
C17_NavigationFailureFallsBack ==
    [][ \A i \in FetchIds :
          /\ (NetworkFails(i) /\ fetches[i].req.mode = "navigate")
                => fetches'[i].pc = "fallback"
          /\ (fetches[i].pc = "fallback" /\ fetches'[i].pc # "fallback")
                => /\ fetches'[i].pc = "done"
                   /\ IF RootIsCached
                        THEN fetches'[i].result = "shell"
                        ELSE fetches'[i].result = "offline" /\ fetches'[i].status = 503 ]_vars

\* a failed navigation to /index.html has been answered with the cached '/'
C17_Witness ==
    \E i \in FetchIds :
        /\ fetches[i].pc = "done"
        /\ fetches[i].req = Request("GET", "/index.html", "navigate")
        /\ fetches[i].net
        /\ fetches[i].result = "shell"
        /\ fetches[i].status = 200

\* C18: when the network fetch of an intercepted GET request classified 'api'
\* rejects, the interceptor calls sync.register('pokemon-sync') in that step,
\* and the request ends as it does without a registration (the error is
\* rethrown, or for a navigation the fallback is taken) whether the
\* registration succeeds or fails.
C18_ApiFailureRegistersSync ==
    [][ \A i \in FetchIds :
          ( /\ NetworkFails(i)
            /\ fetches[i].req.method = "GET"
            /\ getResourceType(UrlOf(fetches[i].req.url)) = "api" )
          => /\ fetches'[i].registerCalled
             /\ syncTags' \in {syncTags, [syncTags EXCEPT !["pokemon-sync"] = 1]}
             /\ IF fetches[i].req.mode = "navigate"
                  THEN fetches'[i].pc = "fallback"
                  ELSE fetches'[i].pc = "done" /\ fetches'[i].result = "error" ]_vars

\* C30: when the network fetch of an intercepted request fails and
\* getResourceType does not answer 'api' for its URL, sync.register is not
\* called and the pending registrations stay as they are
C30_OnlyApiFailuresRegister ==
    [][ \A i \in FetchIds :
          ( /\ NetworkFails(i)
            /\ getResourceType(UrlOf(fetches[i].req.url)) # "api" )
          => /\ ~fetches'[i].registerCalled
             /\ syncTags' = syncTags ]_vars

\* the list request failed, the registration failed too, the error is rethrown
C18_Witness ==
    \E i \in FetchIds :
        /\ fetches[i].pc = "done"
        /\ fetches[i].req = Request("GET", "list", "cors")
        /\ fetches[i].result = "error"
        /\ fetches[i].registerCalled
        /\ syncTags["pokemon-sync"] = 0

\* C19: the caller of an intercepted request whose network fetch returned
\* status 200 gets that response in the step in which the fetch resolves, and
\* no later step (the store succeeding, failing, or still pending) changes it.
C19_StoreNeverChangesResponse ==
    [][ \A i \in FetchIds :
          /\ (fetches[i].pc = "network" /\ fetches'[i].status = 200
                 /\ fetches'[i].pc # "network" /\ fetches'[i].result # "error"
                 /\ fetches'[i].pc # "fallback")
                => (fetches'[i].pc = "done" /\ fetches'[i].result = "network")
          /\ (fetches[i].pc = "done" /\ fetches[i].result = "network"
                 /\ fetches[i].status = 200)
                => fetches'[i] \in {fetches[i], IdleFetch} ]_vars

\* a 200 response has been delivered and its store has failed
C19_Witness ==
    \E i \in FetchIds :
        /\ fetches[i].pc = "done"
        /\ fetches[i].result = "network"
        /\ fetches[i].status = 200
        /\ Cacheable(fetches[i].req)
        /\ puts = {}
        /\ CachesMatch(fetches[i].req.url) = {}

(***************************************************************************)
(* Claims about the cache, checked under SpecFetch and SpecSync            *)
(***************************************************************************)
\* C1 (as claimed): an interception of a cacheable GET request that starts
\* after the first interception of that request ended with a network
\* response of status 200 makes no network call and is answered from the
\* cache, whether or not the cache write of the first has settled.
C1_SecondInterceptionHits ==
    \A i \in FetchIds :
        fetches[i].later =>
            /\ ~fetches[i].net
            /\ (fetches[i].pc = "done" => fetches[i].result = "cache")

\* C5 (as claimed): every entry of every bucket is the response of a GET
\* request whose status was exactly 200. (The buckets start with entries of
\* status 200 only, so an entry of another status is one the worker wrote.)
C5_OnlyStatus200Stored ==
    \A n \in cacheNames : \A e \in cacheEntries[n] : e.method = "GET" /\ e.status = 200

\* C20 (as claimed): a catalog-sync run whose list page was fetched and
\* stored starts at most 10 detail fetches, and once they have all settled,
\* however many of them failed, it ends without raising (no retry timer is
\* set) and every window open at that moment is posted SYNC_COMPLETE.
\* the entries of the catalog host in the API bucket
CatalogEntries(entries) ==
    {e \in entries[API_CACHE] : Includes(UrlOf(e.url).hostname, "pokeapi.co")}

\* C23: while the fetch that starts the re-sync of a refresh run is in
\* flight, no entry of the catalog host that the API bucket held when the
\* run started is in the bucket, and every other bucket holds what it held
\* when the run started
C23_RefreshDeletesBeforeResync ==
    (run.tag = "pokemon-refresh" /\ run.pc = "list")
        => /\ CatalogEntries(run.before) \cap cacheEntries[API_CACHE] = {}
           /\ \A n \in AllCacheNames \ {API_CACHE} : cacheEntries[n] = run.before[n]

\* the first fetch of a refresh run is in flight; the run found the list
\* page and a detail in the API bucket and the shell in the static bucket
C23_Witness ==
    /\ run.tag = "pokemon-refresh"
    /\ run.pc = "list"
    /\ Cardinality(CatalogEntries(run.before)) >= 2
    /\ cacheEntries[API_CACHE] = {}
    /\ cacheEntries[STATIC_CACHE] # {}

\* a controlled window that has been told nothing
QuietWindow(c) == clients[c] = "controlled" /\ inbox[c] = {}

\* C21: when the fetch of the first page fails (no answer, or an answer that
\* is not ok) the run posts no message to any window, arms exactly one timer
\* of 30000 ms, and ends rejected; the timer, when it fires, registers the
\* catalog-sync tag 'pokemon-sync' and nothing else
C21_ListFailureRearmsAndRethrows ==
    [][ /\ (run.pc = "list" /\ run'.pc = "idle")
            => /\ inbox' = inbox
               /\ timers' = Append(timers, 30000)
               /\ run'.outcome = "rejected"
        /\ (timers # <<>> /\ timers' = Tail(timers))
            => /\ Head(timers) = 30000
               /\ syncTags' \in {syncTags, [syncTags EXCEPT !["pokemon-sync"] = 1]}
               /\ syncTags'["pokemon-refresh"] = syncTags["pokemon-refresh"] ]_vars

\* a run that got no list response has ended rejected with its timer armed,
\* while a controlled window is open and has been told nothing
C21_Witness ==
    /\ run.pc = "idle"
    /\ run.outcome = "rejected"
    /\ run.fetched = 0
    /\ timers = <<30000>>
    /\ \E c \in ClientIds : QuietWindow(c)

C20_BestEffortJoinTellsEveryWindow ==
    [][ /\ (run.pc = "parse" /\ run'.pc = "details")
              => Cardinality(run'.pending) <= 10
        /\ (run.pc = "details" /\ run'.pc = "idle")
              => /\ run.pending = {}
                 /\ timers' = timers
                 /\ \A c \in OpenWindows : "SYNC_COMPLETE" \in inbox'[c] ]_vars

(***************************************************************************)
(* message, public/pokemonWorker.js 355-393                                *)
(***************************************************************************)
\* a message text is the sequence of its characters
Texts ==
    { <<"h", "i">>,
      <<"S", "y", "n", "c">>,
      <<"a", "s", "y", "n", "c">>,
      <<"C", "a", "c", "h", "e">>,
      <<"P", "O", "K", "E", "M", "O", "N">>,
      <<"s", "y", "n", "c", " ", "p", "o", "k", "e", "m", "o", "n">>,
      <<"c", "a", "c", "h", "e", " ", "S", "Y", "N", "C">> }

\* String.prototype.toLowerCase, one character
LowerChar(ch) ==
    CASE ch = "A" -> "a" [] ch = "C" -> "c" [] ch = "E" -> "e" [] ch = "K" -> "k"
      [] ch = "M" -> "m" [] ch = "N" -> "n" [] ch = "O" -> "o" [] ch = "P" -> "p"
      [] ch = "S" -> "s" [] ch = "Y" -> "y"
      [] OTHER -> ch

toLowerCase(s) == [i \in 1..Len(s) |-> LowerChar(s[i])]

\* String.prototype.includes on character sequences
StringIncludes(s, sub) ==
    \E i \in 1..(Len(s) - Len(sub) + 1) : SubSeq(s, i, i + Len(sub) - 1) = sub

KeywordPokemon == <<"p", "o", "k", "e", "m", "o", "n">>
KeywordCache == <<"c", "a", "c", "h", "e">>
KeywordSync == <<"s", "y", "n", "c">>

\* the chain with the last branch taken for every text without 'pokemon' or 'cache'
UserMessageKindSyncByDefault(userMessage) ==
    IF StringIncludes(toLowerCase(userMessage), KeywordPokemon) THEN "pokemon"
    ELSE IF StringIncludes(toLowerCase(userMessage), KeywordCache) THEN "cache"
    ELSE "sync"

\* lines 365-375: which branch of the if / else-if chain handles the text
UserMessageKind(userMessage) ==
    IF StringIncludes(toLowerCase(userMessage), KeywordPokemon) THEN "pokemon"
    ELSE IF StringIncludes(toLowerCase(userMessage), KeywordCache) THEN "cache"
    ELSE IF StringIncludes(toLowerCase(userMessage), KeywordSync) THEN "sync"
    ELSE "generic"

\* lines 366, 368, 372, 374: the reply text quotes the message
UserMessageResponse(userMessage) ==
    [kind |-> UserMessageKind(userMessage), text |-> userMessage]

\* lines 356-382, for event.data.type === 'USER_MESSAGE': window c posts the
\* text through registration.active.postMessage (App.tsx 263-278), with or
\* without a MessageChannel port; the handler runs up to the call of matchAll
MessageEvent(c, text, port) ==
    /\ swState = "activated"
    /\ msg.pc = "idle"
    /\ clients[c] # "closed"
    /\ LET response == UserMessageResponse(text)
       IN /\ msg' = [pc |-> "broadcast", sender |-> c, text |-> text, port |-> port,
                     response |-> response,
                     registerCalled |-> (response.kind = "sync"),
                     portReply |-> port, open |-> {}, delivered |-> {}]
          /\ IF response.kind = "sync"
               THEN \E ok \in BOOLEAN : syncTags' = Registered(syncTags, "pokemon-sync", ok)
               ELSE UNCHANGED syncTags
    /\ UNCHANGED <<swState, cacheVars, activateVars, fetchVars, run, timers, clientVars, push>>

\* lines 384-391: matchAll() resolves and every client of the list is posted the reply
MessageBroadcast ==
    /\ msg.pc = "broadcast"
    /\ msg' = [msg EXCEPT !.pc = "done", !.open = OpenWindows, !.delivered = MatchAll]
    /\ inbox' = PostToAll(MatchAll, "USER_MESSAGE_RESPONSE")
    /\ UNCHANGED <<swState, cacheVars, activateVars, fetchVars, syncVars, clients, push>>

\* the handler and its promise are finished
MessageRelease ==
    /\ msg.pc = "done"
    /\ msg' = IdleMessage
    /\ UNCHANGED <<swState, cacheVars, activateVars, fetchVars, syncVars, clientVars, push>>

\* App.tsx 281-302: the page's listener takes the posted messages
handleSWMessage(c) ==
    /\ clients[c] # "closed"
    /\ inbox[c] # {}
    /\ inbox' = [inbox EXCEPT ![c] = {}]
    /\ UNCHANGED clients

messageFrame == <<retryVars, appVars, extraVars, swState, cacheVars, activateVars, fetchVars, syncVars, bridgeVars>>

MessageInit ==
    /\ watch = NoRequest
    /\ ActiveInit

MessageNext ==
    \/ \E c \in ClientIds, text \in Texts, port \in BOOLEAN :
          MessageEvent(c, text, port) /\ UNCHANGED <<retryVars, appVars, extraVars>>
    \/ MessageBroadcast /\ UNCHANGED <<retryVars, appVars, extraVars>>
    \/ MessageRelease /\ UNCHANGED <<retryVars, appVars, extraVars>>
    \/ \E c \in ClientIds : handleSWMessage(c) /\ UNCHANGED messageFrame
    \/ \E c \in ClientIds : OpenClient(c) /\ UNCHANGED messageFrame
    \/ \E c \in ClientIds : CloseClient(c) /\ UNCHANGED messageFrame

SpecMessage == MessageInit /\ [][MessageNext]_vars

(***************************************************************************)
(* Every caller of sync.register('pokemon-sync') at work on one manager:   *)
(* the catch of the fetch listener (line 138), the 'sync' branch of the    *)
(* message listener (line 370) and the retry timer (line 225)              *)
(***************************************************************************)
CatalogRequest == Request("GET", "list", "cors")
SyncText == <<"S", "y", "n", "c">>

RegisterInit ==
    /\ watch = NoRequest
    /\ ActiveInit

RegisterNext ==
    \/ \E i \in FetchIds : FetchEvent(i, CatalogRequest) /\ UNCHANGED otherVars
    \/ \E i \in FetchIds : FetchMatch(i) /\ UNCHANGED otherVars
    \/ \E i \in FetchIds : FetchFails(i) /\ UNCHANGED otherVars
    \/ \E i \in FetchIds : FetchRelease(i) /\ UNCHANGED otherVars
    \/ MessageEvent(AppWindow, SyncText, FALSE) /\ UNCHANGED <<retryVars, appVars, extraVars>>
    \/ MessageBroadcast /\ UNCHANGED <<retryVars, appVars, extraVars>>
    \/ MessageRelease /\ UNCHANGED <<retryVars, appVars, extraVars>>
    \/ SyncEvent("pokemon-sync") /\ UNCHANGED otherVars
    \/ SyncListSettles /\ UNCHANGED otherVars
    \/ SyncListStored /\ UNCHANGED otherVars
    \/ SyncListParsed /\ UNCHANGED otherVars
    \/ \E url \in DetailIds : SyncDetailSettles(url) /\ UNCHANGED otherVars
    \/ SyncBroadcast /\ UNCHANGED otherVars
    \/ TimerFires /\ UNCHANGED otherVars
    \/ OpenClient(AppWindow) /\ UNCHANGED messageFrame

SpecRegister == RegisterInit /\ [][RegisterNext]_vars

\* a step in which sync.register('pokemon-sync') is called and settles
RegisterCallSettles ==
    \/ \E i \in FetchIds : NetworkFails(i) /\ fetches'[i].registerCalled
    \/ msg.pc = "idle" /\ msg'.pc = "broadcast" /\ msg'.registerCalled
    \/ timers # <<>> /\ timers' = Tail(timers)

MessageHandled == msg.pc \in {"broadcast", "done"}

ContainsKeyword(text, keyword) == StringIncludes(toLowerCase(text), keyword)

\* C7 (as claimed): for every handled USER_MESSAGE whose text contains "sync"
\* in any letter case, whatever other keywords it contains, the worker has
\* built a USER_MESSAGE_RESPONSE for it and has called
\* sync.register('pokemon-sync').
C7_SyncTextRegistersSync ==
    (MessageHandled /\ ContainsKeyword(msg.text, KeywordSync)) =>
        /\ msg.response.text = msg.text
        /\ msg.registerCalled

\* C8: handling a USER_MESSAGE whose text contains none of "pokemon", "cache",
\* "sync" builds the generic acknowledgement, calls no registration, and
\* leaves the registered sync tags and the cache buckets as they were.
C8_PlainTextOnlyAcknowledged ==
    [][ ( /\ msg.pc = "idle"
          /\ msg'.pc = "broadcast"
          /\ ~ContainsKeyword(msg'.text, KeywordPokemon)
          /\ ~ContainsKeyword(msg'.text, KeywordCache)
          /\ ~ContainsKeyword(msg'.text, KeywordSync) )
        => ( /\ msg'.response.kind = "generic"
             /\ ~msg'.registerCalled
             /\ syncTags' = syncTags
             /\ cacheNames' = cacheNames
             /\ cacheEntries' = cacheEntries ) ]_vars

C8_Witness ==
    /\ msg.pc = "done"
    /\ msg.text = <<"h", "i">>
    /\ msg.response.kind = "generic"
    /\ msg.delivered # {}
    /\ syncTags = NoRegistrations

\* C9 (as claimed): once the reply of a handled USER_MESSAGE has been
\* broadcast, every window that was open at the broadcast has been posted the
\* USER_MESSAGE_RESPONSE, whoever sent the message, port or no port.
C9_EveryOpenWindowGetsReply ==
    msg.pc = "done" => msg.open \subseteq msg.delivered

(***************************************************************************)
(* push, public/pokemonWorker.js 258-321                                   *)
(***************************************************************************)
\* the values Date.now() returns at line 268
Times == {1, 2}

\* a pushed object has at most this many keys, or all of them
MaxPushedKeys == 2

\* an object is a function from its keys to their values
PushFields == {"title", "body", "icon", "badge", "vibrate", "data", "tag"}

\* what a push message supplies for a key
PushedValue(key) ==
    CASE key = "title" -> "Pikachu"
      [] key = "body" -> "A wild Pikachu appeared"
      [] key = "icon" -> "/pikachu.png"
      [] key = "badge" -> "/badge.png"
      [] key = "vibrate" -> <<200>>
      [] key = "data" -> [url |-> "/pokemon/25"]
      [] key = "tag" -> "catalog"

PushedKeySets ==
    {keys \in SUBSET PushFields : Cardinality(keys) <= MaxPushedKeys \/ keys = PushFields}

\* event.data: absent, a JSON object, or text that is not JSON ('' included)
JsonPayload(keys) == [kind |-> "json", value |-> [k \in keys |-> PushedValue(k)]]
TextPayload(text) == [kind |-> "text", text |-> text]
PushPayloads ==
    {None} \cup {JsonPayload(keys) : keys \in PushedKeySets}
           \cup {TextPayload(text) : text \in {"", "hello"}}

\* lines 261-271
DefaultNotification(now) ==
    [title |-> "Pokemon PWA",
     body |-> "You have a new notification!",
     icon |-> "/vite.svg",
     badge |-> "/vite.svg",
     vibrate |-> <<100, 50, 100>>,
     data |-> [dateOfArrival |-> now, primaryKey |-> 1]]

\* the spread written the other way round: { ...pushData, ...notificationData }
SpreadDefaultsLast(notificationData, pushData) ==
    [k \in (DOMAIN notificationData) \cup (DOMAIN pushData) |->
        IF k \in DOMAIN notificationData THEN notificationData[k] ELSE pushData[k]]

\* lines 277-280: { ...notificationData, ...pushData }
Spread(notificationData, pushData) ==
    [k \in (DOMAIN notificationData) \cup (DOMAIN pushData) |->
        IF k \in DOMAIN pushData THEN pushData[k] ELSE notificationData[k]]

\* the catch block without its assignment to body
NotificationDataDropsText(payload, now) ==
    CASE payload.kind = "none" -> DefaultNotification(now)
      [] payload.kind = "json" -> Spread(DefaultNotification(now), payload.value)
      [] payload.kind = "text" -> DefaultNotification(now)

\* lines 274-285
NotificationData(payload, now) ==
    CASE payload.kind = "none" -> DefaultNotification(now)
      [] payload.kind = "json" -> Spread(DefaultNotification(now), payload.value)
      [] payload.kind = "text" ->
            [DefaultNotification(now) EXCEPT
                !.body = IF payload.text # "" THEN payload.text ELSE @]

\* lines 287-306, without the constant actions and requireInteraction
Options(notificationData) ==
    [body |-> notificationData.body,
     icon |-> notificationData.icon,
     badge |-> notificationData.badge,
     vibrate |-> notificationData.vibrate,
     data |-> notificationData.data]

\* lines 258-320: the handler runs to its end, leaving matchAll() and
\* showNotification() pending
PushEvent(payload, now) ==
    /\ swState = "activated"
    /\ push.pc = "idle"
    /\ push' = [IdlePush EXCEPT !.pc = "running", !.payload = payload, !.now = now,
                                !.notificationData = NotificationData(payload, now),
                                !.showPending = TRUE, !.broadcastPending = TRUE]
    /\ UNCHANGED <<swState, cacheVars, activateVars, fetchVars, syncVars, clientVars, msg>>

\* lines 309-316: matchAll() resolves and the clients of the list are posted the data
PushBroadcast ==
    /\ push.broadcastPending
    /\ push' = [push EXCEPT !.broadcastPending = FALSE,
                            !.broadcast = [kind |-> "message",
                                           type |-> "PUSH_NOTIFICATION_RECEIVED",
                                           notification |-> push.notificationData],
                            !.unreached = OpenWindows \ MatchAll]
    /\ inbox' = PostToAll(MatchAll, "PUSH_NOTIFICATION_RECEIVED")
    /\ UNCHANGED <<swState, cacheVars, activateVars, fetchVars, syncVars, clients, msg>>

\* lines 318-320: showNotification(title, options) settles; it rejects when
\* the permission is not granted
PushShow ==
    /\ push.showPending
    /\ \E granted \in BOOLEAN :
          push' = [push EXCEPT !.showPending = FALSE,
                               !.shown = IF granted
                                   THEN [kind |-> "notification",
                                         title |-> push.notificationData.title,
                                         options |-> Options(push.notificationData)]
                                   ELSE [kind |-> "rejected"]]
    /\ UNCHANGED <<swState, cacheVars, activateVars, fetchVars, syncVars, clientVars, msg>>

\* lines 309 and 318: only showNotification is handed to event.waitUntil, so
\* once it has settled the host may stop the worker, and the then-callback of
\* a matchAll() that has not resolved yet never runs
PushTerminate ==
    /\ push.pc = "running"
    /\ ~push.showPending
    /\ push.broadcastPending
    /\ push' = [push EXCEPT !.broadcastPending = FALSE, !.broadcast = [kind |-> "lost"],
                            !.unreached = OpenWindows]
    /\ UNCHANGED <<swState, cacheVars, activateVars, fetchVars, syncVars, clientVars, msg>>

PushRelease ==
    /\ push.pc = "running"
    /\ ~push.showPending
    /\ ~push.broadcastPending
    /\ push' = IdlePush
    /\ UNCHANGED <<swState, cacheVars, activateVars, fetchVars, syncVars, clientVars, msg>>

PushInit ==
    /\ watch = NoRequest
    /\ ActiveInit

PushNext ==
    \/ \E payload \in PushPayloads, now \in Times : PushEvent(payload, now) /\ UNCHANGED <<retryVars, appVars, extraVars>>
    \/ PushBroadcast /\ UNCHANGED <<retryVars, appVars, extraVars>>
    \/ PushShow /\ UNCHANGED <<retryVars, appVars, extraVars>>
    \/ PushTerminate /\ UNCHANGED <<retryVars, appVars, extraVars>>
    \/ PushRelease /\ UNCHANGED <<retryVars, appVars, extraVars>>
    \/ \E c \in ClientIds : handleSWMessage(c) /\ UNCHANGED messageFrame
    \/ \E c \in ClientIds : OpenClient(c) /\ UNCHANGED messageFrame
    \/ \E c \in ClientIds : CloseClient(c) /\ UNCHANGED messageFrame

SpecPush == PushInit /\ [][PushNext]_vars

(***************************************************************************)
(* Claims about the push listener, checked under SpecPush                  *)
(***************************************************************************)
\* the value the claim expects for a key: the pushed one when the payload has
\* the key, the documented default otherwise
ExpectedField(key) ==
    IF key \in DOMAIN push.payload.value
      THEN PushedValue(key)
      ELSE CASE key = "title" -> "Pokemon PWA"
             [] key = "body" -> "You have a new notification!"
             [] key = "icon" -> "/vite.svg"
             [] key = "badge" -> "/vite.svg"
             [] key = "vibrate" -> <<100, 50, 100>>
             [] key = "data" -> [dateOfArrival |-> push.now, primaryKey |-> 1]

OptionKeys == {"body", "icon", "badge", "vibrate", "data"}
DefaultKeys == {"title"} \cup OptionKeys

\* C10: for a push event whose payload parses to an object, the displayed
\* notification has, for its title and each of body, icon, badge, vibrate and
\* data, the pushed value when the payload has the key and the default
\* otherwise, and the PUSH_NOTIFICATION_RECEIVED message carries exactly the
\* default keys and the pushed keys, each with the pushed value when present
\* and the default otherwise.
C10_PushedFieldsOverrideDefaults ==
    (push.pc = "running" /\ push.payload.kind = "json") =>
        /\ push.shown.kind = "notification" =>
              /\ push.shown.title = ExpectedField("title")
              /\ DOMAIN push.shown.options = OptionKeys
              /\ \A k \in OptionKeys : push.shown.options[k] = ExpectedField(k)
        /\ push.broadcast.kind = "message" =>
              /\ push.broadcast.type = "PUSH_NOTIFICATION_RECEIVED"
              /\ DOMAIN push.broadcast.notification
                    = DefaultKeys \cup DOMAIN push.payload.value
              /\ \A k \in DOMAIN push.broadcast.notification :
                    push.broadcast.notification[k] = ExpectedField(k)

\* a payload of title and body only has been shown and broadcast
C10_Witness ==
    /\ push.pc = "running"
    /\ push.payload = JsonPayload({"title", "body"})
    /\ push.shown.kind = "notification"
    /\ push.shown.title = "Pikachu"
    /\ push.shown.options.body = "A wild Pikachu appeared"
    /\ push.shown.options.icon = "/vite.svg"
    /\ push.shown.options.vibrate = <<100, 50, 100>>
    /\ push.shown.options.data = [dateOfArrival |-> push.now, primaryKey |-> 1]
    /\ push.broadcast.kind = "message"
    /\ push.broadcast.notification.badge = "/vite.svg"
    /\ \E c \in ClientIds : "PUSH_NOTIFICATION_RECEIVED" \in inbox[c]

\* the body the claim expects for a payload that is not JSON
ExpectedTextBody ==
    IF push.payload.text = "" THEN "You have a new notification!" ELSE push.payload.text

\* C11: a push event whose payload does not parse is not dropped: the handler
\* has called showNotification and has started the broadcast, exactly as for a
\* payload that parses; the notification shown and the message broadcast
\* carry the default title, icon, badge, vibrate pattern and data, and as body
\* the raw text, or the default body when the text is empty.
C11_UnparsablePayloadBecomesBody ==
    (push.pc = "running" /\ push.payload.kind = "text") =>
        /\ push.showPending \/ push.shown.kind \in {"notification", "rejected"}
        /\ push.broadcastPending \/ push.broadcast.kind # "none"
        /\ push.shown.kind = "notification" =>
              /\ push.shown.title = "Pokemon PWA"
              /\ push.shown.options =
                    [body |-> ExpectedTextBody, icon |-> "/vite.svg", badge |-> "/vite.svg",
                     vibrate |-> <<100, 50, 100>>,
                     data |-> [dateOfArrival |-> push.now, primaryKey |-> 1]]
        /\ push.broadcast.kind = "message" =>
              push.broadcast.notification =
                    [title |-> "Pokemon PWA", body |-> ExpectedTextBody,
                     icon |-> "/vite.svg", badge |-> "/vite.svg",
                     vibrate |-> <<100, 50, 100>>,
                     data |-> [dateOfArrival |-> push.now, primaryKey |-> 1]]

\* the raw text 'hello' has been shown as the body and broadcast
C11_Witness ==
    /\ push.pc = "running"
    /\ push.payload = TextPayload("hello")
    /\ push.shown.kind = "notification"
    /\ push.shown.options.body = "hello"
    /\ push.broadcast.kind = "message"
    /\ push.broadcast.notification.body = "hello"
    /\ \E c \in ClientIds : "PUSH_NOTIFICATION_RECEIVED" \in inbox[c]

\* C12 (as claimed): when a push event has been handled to its end and its
\* notification is displayed, every window that was open when the broadcast
\* ran, or when the worker was stopped before it ran, has been posted the
\* PUSH_NOTIFICATION_RECEIVED message.
C12_BothEffectsReachEveryWindow ==
    ( /\ push.pc = "running"
      /\ ~push.showPending
      /\ ~push.broadcastPending
      /\ push.shown.kind = "notification" )
    => push.unreached = {}

(***************************************************************************)
(* notificationclick, public/pokemonWorker.js 324-352                      *)
(***************************************************************************)
\* a window URL is its origin followed by the characters of its path; a
\* target URL is the characters of a path
Origin == <<"https://localhost">>
WindowUrls == { Origin \o <<"/">>, Origin \o <<"/", "a">>, Origin \o <<"/", "a", "b">> }

\* event.notification.data: undefined, or an object with or without url
ClickData ==
    { None,
      [kind |-> "object", hasUrl |-> FALSE, url |-> <<>>],
      [kind |-> "object", hasUrl |-> TRUE, url |-> <<>>],
      [kind |-> "object", hasUrl |-> TRUE, url |-> <<"/", "a">>] }
ClickActions == {"", "view", "dismiss"}

\* what matchAll({type: 'window', includeUncontrolled: true}) can resolve to
WindowLists == UNION {[1..n -> WindowUrls] : n \in 0..MaxClients}

\* line 334: event.notification.data?.url || '/'
UrlToOpen(data) ==
    IF data.kind = "object" /\ data.hasUrl /\ data.url # <<>> THEN data.url ELSE <<"/">>

\* line 341: client.url.includes(urlToOpen); every window client has focus
ClientMatches(clientUrl, urlToOpen) == StringIncludes(clientUrl, urlToOpen)

\* lines 340-344: the index of the first client of the list that matches, or 0
FirstMatch(clientList, urlToOpen) ==
    IF \E i \in 1..Len(clientList) : ClientMatches(clientList[i], urlToOpen)
      THEN CHOOSE i \in 1..Len(clientList) :
              /\ ClientMatches(clientList[i], urlToOpen)
              /\ \A j \in 1..(i - 1) : ~ClientMatches(clientList[j], urlToOpen)
      ELSE 0

\* lines 324-337: the handler runs to its end; for 'dismiss' that is the
\* return of line 330
NotificationClick(action, data) ==
    /\ swState = "activated"
    /\ click.pc = "idle"
    /\ click' = [IdleClick EXCEPT
                    !.action = action, !.data = data, !.closed = TRUE,
                    !.pc = IF action = "dismiss" THEN "done" ELSE "matching",
                    !.urlToOpen = IF action = "dismiss" THEN <<>> ELSE UrlToOpen(data)]
    /\ UNCHANGED <<classified, toasts, registry, api>>

\* lines 338-350: matchAll resolves; the first matching client is focused, or
\* a window is opened (clients.openWindow exists in a window-capable host)
ClickMatched(clientList) ==
    /\ click.pc = "matching"
    /\ LET i == FirstMatch(clientList, click.urlToOpen)
       IN click' = [click EXCEPT
                       !.pc = "done", !.windows = clientList, !.focused = i,
                       !.opened = IF i = 0 THEN click.urlToOpen ELSE <<>>]
    /\ UNCHANGED <<classified, toasts, registry, api>>

ClickRelease ==
    /\ click.pc = "done"
    /\ click' = IdleClick
    /\ UNCHANGED <<classified, toasts, registry, api>>

ClickInit ==
    /\ watch = NoRequest
    /\ ActiveInit

ClickNext ==
    \/ \E action \in ClickActions, data \in ClickData :
          NotificationClick(action, data) /\ UNCHANGED <<retryVars, appVars, workerVars>>
    \/ \E clientList \in WindowLists :
          ClickMatched(clientList) /\ UNCHANGED <<retryVars, appVars, workerVars>>
    \/ ClickRelease /\ UNCHANGED <<retryVars, appVars, workerVars>>

SpecClick == ClickInit /\ [][ClickNext]_vars

\* the URL the claim expects to be shown
ClickTarget ==
    IF click.data.kind = "object" /\ click.data.hasUrl /\ click.data.url # <<>>
      THEN click.data.url ELSE <<"/">>
\* the window is showing the target URL
Showing(windowUrl, target) == windowUrl = Origin \o target

\* C16 (as claimed): a handled click has closed the notification; with action
\* 'dismiss' no window is focused or opened; with any other action a window
\* is focused only if it is showing the target URL (data.url, default '/'),
\* and when no window of the list shows the target URL a window is opened
\* on it.
C16_FocusOnlyWindowShowingTarget ==
    click.pc = "done" =>
        /\ click.closed
        /\ click.action = "dismiss" => (click.focused = 0 /\ click.opened = <<>>)
        /\ click.action # "dismiss" =>
              /\ click.focused # 0 => Showing(click.windows[click.focused], ClickTarget)
              /\ (\A i \in 1..Len(click.windows) : ~Showing(click.windows[i], ClickTarget))
                    => (click.focused = 0 /\ click.opened = ClickTarget)

(***************************************************************************)
(* fetchWithRetry, src/App.tsx 35-66                                       *)
(***************************************************************************)
\* HTTP statuses the network answers with.
Statuses == {200, 204, 304, 404, 500}


\* The comment of line 57 ("1s, 2s, 4s"): doubling.
BackoffDelayDoubling(k) == (2 ^ (k - 1)) * 1000
\* line 58: const delay = attempt ** 2 * 1000
BackoffDelay(k) == (k * k) * 1000

\* what one fetch(url, {signal}) ends with
Answered(status) == [kind |-> "status", status |-> status]
NetError == [kind |-> "neterror", status |-> 0]
Aborted == [kind |-> "abort", status |-> 0]

HttpError(k, status) == [kind |-> "error", name |-> "Error", status |-> status, attempt |-> k]
NetworkError(k) == [kind |-> "error", name |-> "TypeError", status |-> 0, attempt |-> k]
AbortError(k) == [kind |-> "error", name |-> "AbortError", status |-> 0, attempt |-> k]
MaxRetriesExceeded == [kind |-> "error", name |-> "Error", status |-> 0, attempt |-> 0]
FetchResponse(k, status) == [kind |-> "response", name |-> "Response", status |-> status, attempt |-> k]

RetryInit ==
    /\ maxRetries \in 0..MaxRetriesBound
    /\ attempt = 1
    /\ frPc = "call"
    /\ aborted \in BOOLEAN
    /\ results = <<>>
    /\ delays = <<>>
    /\ netAttempts = 0
    /\ frOutcome = None
    /\ abortMark = IF aborted THEN <<0, 0>> ELSE <<>>

\* line 40: the loop condition, on entry and after each wait
RetryLoopTest ==
    /\ frPc = "call"
    /\ IF attempt <= maxRetries
         THEN /\ frPc' = "fetch"
              \* an aborted signal makes fetch reject without a request
              /\ netAttempts' = IF aborted THEN netAttempts ELSE netAttempts + 1
              /\ frOutcome' = frOutcome
         ELSE \* line 65
              /\ frPc' = "thrown"
              /\ frOutcome' = MaxRetriesExceeded
              /\ netAttempts' = netAttempts
    /\ UNCHANGED <<maxRetries, attempt, aborted, results, delays, abortMark>>

\* lines 48-62: the catch block, for the error err of the current attempt
RetryCatch(err) ==
    IF err.name = "AbortError"
      THEN /\ frPc' = "thrown"
           /\ frOutcome' = err
           /\ UNCHANGED <<attempt, delays>>
      ELSE IF attempt = maxRetries
        THEN /\ frPc' = "thrown"
             /\ frOutcome' = err
             /\ UNCHANGED <<attempt, delays>>
        ELSE /\ frPc' = "delay"
             /\ UNCHANGED <<frOutcome, attempt, delays>>

\* line 42: the awaited fetch settles
RetryFetchSettles ==
    /\ frPc = "fetch"
    /\ IF aborted
         THEN /\ results' = Append(results, Aborted)
              /\ RetryCatch(AbortError(attempt))
         ELSE \/ \E status \in Statuses :
                   /\ results' = Append(results, Answered(status))
                   /\ IF ResponseOk(status)
                        THEN /\ frPc' = "returned"
                             /\ frOutcome' = FetchResponse(attempt, status)
                             /\ UNCHANGED <<attempt, delays>>
                        ELSE RetryCatch(HttpError(attempt, status))
              \/ /\ results' = Append(results, NetError)
                 /\ RetryCatch(NetworkError(attempt))
    /\ UNCHANGED <<maxRetries, aborted, netAttempts, abortMark>>

\* line 62: the timer of the wait fires; the loop goes to its next attempt
RetryDelayElapses ==
    /\ frPc = "delay"
    /\ delays' = Append(delays, BackoffDelay(attempt))
    /\ attempt' = attempt + 1
    /\ frPc' = "call"
    /\ UNCHANGED <<maxRetries, aborted, results, netAttempts, frOutcome, abortMark>>

\* the owner of the AbortController aborts while the call is running
SignalAborts ==
    /\ frPc \in {"fetch", "delay"}
    /\ ~aborted
    /\ aborted' = TRUE
    /\ abortMark' = <<Len(delays), netAttempts>>
    /\ UNCHANGED <<maxRetries, attempt, frPc, results, delays, netAttempts, frOutcome>>

RetryNext ==
    \/ RetryLoopTest /\ UNCHANGED <<appVars, workerVars, extraVars>>
    \/ RetryFetchSettles /\ UNCHANGED <<appVars, workerVars, extraVars>>
    \/ RetryDelayElapses /\ UNCHANGED <<appVars, workerVars, extraVars>>
    \/ SignalAborts /\ UNCHANGED <<appVars, workerVars, extraVars>>

RetryCallInit == RetryInit /\ WorkerIdle /\ AppIdle /\ ExtraIdle

SpecRetry == RetryCallInit /\ [][RetryNext]_vars

\* C29: the k-th wait of a call of fetchWithRetry, the one after attempt k,
\* lasts 1000 ms for k = 1, 2000 ms for k = 2 and 4000 ms for k = 3
C29_WaitsDouble ==
    \A k \in 1..Len(delays) :
        /\ k = 1 => delays[k] = 1000
        /\ k = 2 => delays[k] = 2000
        /\ k = 3 => delays[k] = 4000

(***************************************************************************)
(* Claims about fetchWithRetry, checked under SpecRetry                    *)
(***************************************************************************)
RetryDone == frPc \in {"returned", "thrown"}

\* what the claims call a non-cancellation failure of one attempt
IsRetryableFailure(r) ==
    r.kind = "neterror" \/ (r.kind = "status" /\ (r.status < 200 \/ r.status > 299))
IsSuccess(r) == r.kind = "status" /\ r.status >= 200 /\ r.status <= 299

\* the URL fails its first two attempts and answers the third
FailsTwiceThenSucceeds ==
    \A i \in 1..Len(results) :
        /\ i <= 3
        /\ (i < 3 => IsRetryableFailure(results[i]))
        /\ (i = 3 => IsSuccess(results[i]))

C3_CancelImmediate ==
    (maxRetries >= 1 /\ aborted /\ RetryDone)
        => /\ frOutcome.name = "AbortError"
           /\ Len(delays) = abortMark[1]
           /\ netAttempts = abortMark[2]

\* C4: for every maxRetries >= 1, when every attempt fails with a network
\* error or a non-2xx status, the finished call has made exactly maxRetries
\* network attempts and maxRetries - 1 waits and throws the error of the last
\* attempt.
C4_AllAttemptsFail ==
    (maxRetries >= 1 /\ RetryDone /\ \A i \in 1..Len(results) : IsRetryableFailure(results[i]))
        => /\ netAttempts = maxRetries
           /\ Len(results) = maxRetries
           /\ Len(delays) = maxRetries - 1
           /\ frPc = "thrown"
           /\ frOutcome = (IF results[maxRetries].kind = "neterror"
                             THEN NetworkError(maxRetries)
                             ELSE HttpError(maxRetries, results[maxRetries].status))

C4_Witness ==
    /\ maxRetries = MaxRetriesBound
    /\ frPc = "thrown"
    /\ Len(results) = maxRetries
    /\ \A i \in 1..Len(results) : IsRetryableFailure(results[i])
    /\ \E i \in 1..Len(results) : results[i].kind = "neterror"
    /\ \E i \in 1..Len(results) : results[i].kind = "status"

(***************************************************************************)
(* The list of the App component, src/App.tsx 304-398 and 473-487          *)
(***************************************************************************)
\* lines 473-479: the last card, which carries the ref, is rendered
Mounted(p) == ~p.loading /\ ~p.error /\ p.pages > 0
\* a ref callback without the test of line 377
BusyNever(p) == FALSE
\* line 377
Busy(p) == p.loading \/ p.loadingMore
\* line 388: the dependencies of the ref callback
RefDeps(p) == <<p.loading, p.loadingMore, p.hasMore, p.nextUrl>>
\* line 476: which card is the last one
LastCard(p) == IF Mounted(p) THEN p.pages ELSE 0

\* lines 376-387 called with null: the callback of the previous render
Detach(old) == IF Mounted(old) /\ ~Busy(old) THEN NoObserver ELSE old.observer
\* lines 376-387 called with the last card: the callback of the new render
Attach(observer, new) ==
    IF Mounted(new) /\ ~Busy(new)
      THEN [on |-> TRUE, hasMore |-> new.hasMore, nextUrl |-> new.nextUrl]
      ELSE observer

\* React commits a render: a ref callback that changed, or whose card changed,
\* is called with null (the old one) and with the card (the new one)
Commit(old, new) ==
    IF RefDeps(old) = RefDeps(new) /\ LastCard(old) = LastCard(new)
      THEN new
      ELSE [new EXCEPT !.observer = Attach(Detach(old), new)]

\* lines 323-324 with hasMore left true
CursorAfterAlwaysMore(next) == [nextUrl |-> next, hasMore |-> TRUE]

\* lines 323-324: setNextUrl(pokemonsData.next); setHasMore(!!pokemonsData.next)
CursorAfter(next) == [nextUrl |-> next, hasMore |-> Truthy(next)]

\* lines 305-318: fetchPokemons up to its first await
StartFetch(p, url, append) ==
    [p EXCEPT !.loadingMore = IF append THEN TRUE ELSE @,
              !.loading = IF append THEN @ ELSE TRUE,
              !.error = FALSE,
              !.req = [NoPageRequest EXCEPT !.pc = "list", !.url = url, !.append = append,
                                            !.cursor = <<p.nextUrl, p.hasMore>>],
              !.fetched = @ + 1]

\* a catch block that leaves the flags as they are
PageCatchFlagsLeft(p) ==
    [p EXCEPT !.error = TRUE,
              !.wall = FALSE,
              !.req = [NoPageRequest EXCEPT !.failed = p.req.failed]]

\* lines 345-361; the controller of line 306 is never aborted, so the error
\* is not an AbortError; whether a detail fetch had thrown stays on record
PageCatch(p) ==
    [p EXCEPT !.loadingMore = IF p.req.append THEN FALSE ELSE @,
              !.loading = IF p.req.append THEN @ ELSE FALSE,
              !.error = TRUE,
              !.wall = FALSE,
              !.req = [NoPageRequest EXCEPT !.failed = p.req.failed]]

\* lines 367-371: the body of the effect
EffectBody(p) ==
    IF p.wall THEN p ELSE StartFetch([p EXCEPT !.wall = TRUE], INITIAL_URL, FALSE)

\* lines 366-372: the effect runs after the mount and after retryKey changed
AppEffect ==
    /\ page.effect
    /\ page.wall \/ page.fetched < MaxPageFetches
    /\ page' = Commit(page, EffectBody([page EXCEPT !.effect = FALSE]))

\* lines 380-384: the observed card intersects the viewport
Intersect ==
    /\ page.observer.on
    /\ page.observer.hasMore
    /\ Truthy(page.observer.nextUrl)
    /\ page.fetched < MaxPageFetches
    /\ page' = Commit(page, StartFetch(page, page.observer.nextUrl, TRUE))

\* React runs the effect of lines 366-372 a second time right after the
\* mount (the double invocation of effects of a development build), when
\* the first call of fetchPokemons has just begun to wait for its list page
EffectRerun ==
    /\ ~page.effect
    /\ page.fetched = 1
    /\ page.req.pc = "list"
    /\ page' = Commit(page, EffectBody(page))

\* lines 318-324: fetchWithRetry of the list page returns a response whose
\* next link is next and which lists n entries, or throws
PageListSettles ==
    /\ page.req.pc = "list"
    /\ \/ \E next \in {Null} \cup PageUrls, n \in 1..MaxDetails :
            page' = Commit(page,
                [page EXCEPT !.nextUrl = CursorAfter(next).nextUrl,
                             !.hasMore = CursorAfter(next).hasMore,
                             !.req.pc = "details",
                             !.req.next = next,
                             !.req.results = n,
                             !.req.left = n])
       \/ page' = Commit(page, PageCatch(page))

\* lines 328-333: fetchWithRetry of one detail returns or throws
PageDetailSettles(ok) ==
    /\ page.req.pc = "details"
    /\ page.req.left > 0
    /\ page' = [page EXCEPT !.req.left = @ - 1, !.req.failed = @ \/ ~ok]

\* a join that waits for every promise and never rejects
PromiseAllSettled(left, failed) == IF left = 0 THEN "fulfilled" ELSE "pending"

\* line 335, Promise.all: rejected as soon as one promise is, fulfilled when
\* all are
PromiseAll(left, failed) ==
    IF failed THEN "rejected" ELSE IF left = 0 THEN "fulfilled" ELSE "pending"

\* lines 335-344 and 345-361: the await of the join resumes
PageDetailsSettle ==
    /\ page.req.pc = "details"
    /\ PromiseAll(page.req.left, page.req.failed) # "pending"
    /\ IF PromiseAll(page.req.left, page.req.failed) = "fulfilled"
         THEN page' = Commit(page,
                [page EXCEPT !.pages = IF page.req.append THEN @ + 1 ELSE 1,
                             !.records = IF page.req.append THEN @ + page.req.results
                                                            ELSE page.req.results,
                             !.loadingMore = IF page.req.append THEN FALSE ELSE @,
                             !.loading = IF page.req.append THEN @ ELSE FALSE,
                             !.req = NoPageRequest])
         ELSE page' = Commit(page, PageCatch(page))

\* lines 391-398: the Retry button of the error panel
handleRetry ==
    /\ page.error
    /\ page' = Commit(page,
            [page EXCEPT !.wall = FALSE, !.pages = 0, !.records = 0, !.error = FALSE,
                         !.nextUrl = INITIAL_URL, !.hasMore = TRUE, !.effect = TRUE])

PageInit == WorkerIdle /\ RetryIdle /\ AppIdle /\ ExtraIdle

PageNext ==
    \/ AppEffect /\ UNCHANGED <<retryVars, workerVars, extraVars>>
    \/ EffectRerun /\ UNCHANGED <<retryVars, workerVars, extraVars>>
    \/ Intersect /\ UNCHANGED <<retryVars, workerVars, extraVars>>
    \/ PageListSettles /\ UNCHANGED <<retryVars, workerVars, extraVars>>
    \/ \E ok \in BOOLEAN : PageDetailSettles(ok) /\ UNCHANGED <<retryVars, workerVars, extraVars>>
    \/ PageDetailsSettle /\ UNCHANGED <<retryVars, workerVars, extraVars>>
    \/ handleRetry /\ UNCHANGED <<retryVars, workerVars, extraVars>>

SpecPage == PageInit /\ [][PageNext]_vars

\* C13: after a successful list-page fetch nextUrl is the next link of the
\* response and hasMore tells whether that link is non-null; and a step in
\* which an intersection of the last card starts a page fetch is taken only
\* when hasMore is true, and fetches nextUrl.
C13_CursorFollowsNextLink ==
    [][ /\ (page'.req.pc = "details") =>
              /\ page'.nextUrl = page'.req.next
              /\ page'.hasMore = (page'.req.next # Null)
        /\ (page'.fetched # page.fetched /\ page'.req.append) =>
              /\ page.hasMore
              /\ page.nextUrl # Null
              /\ page'.req.url = page.nextUrl ]_vars

\* the last page came with next: null, and the last card is observed again
C13_Witness ==
    /\ page.pages = 2
    /\ page.fetched = 2
    /\ ~page.hasMore
    /\ page.nextUrl = Null
    /\ page.observer.on
    /\ ~page.observer.hasMore

\* no observer is connected while a fetchPokemons call is in progress, so the
\* calls never overlap
PageObserverOffWhileFetching == page.observer.on => page.req.pc = "idle"

\* a step in which fetchPokemons is called
FetchPokemonsCalled == page'.fetched # page.fetched
\* a step in which a call of fetchPokemons ends
FetchPokemonsEnds == page.req.pc # "idle" /\ page'.req.pc = "idle"
\* a step of the Retry button
RetryClicked == page.error /\ ~page'.error /\ page'.effect

C25_GuardClearedOnlyByRetry ==
    [][ /\ (FetchPokemonsCalled /\ ~page'.req.append) => (~page.wall /\ page'.wall)
        /\ (page.wall /\ ~page'.wall) => RetryClicked ]_vars

\* C26: a call of fetchPokemons that ends with an error leaves nextUrl and
\* hasMore as they were when the call began
C26_FailedLoadKeepsCursor ==
    [][ (FetchPokemonsEnds /\ page'.error)
            => <<page'.nextUrl, page'.hasMore>> = page.req.cursor ]_vars

\* C27: when the join of the detail fetches resumes after one of them threw,
\* the call ends with an error and pokemonDetails as it was; otherwise every
\* detail fetch has returned and pokemonDetails gains, or becomes, the whole
\* page; and pokemonDetails changes in no other step but the Retry button's
C27_FailFastJoin ==
    [][ /\ (page.req.pc = "details" /\ FetchPokemonsEnds)
            => IF page.req.failed
                 THEN page'.error /\ page'.records = page.records
                 ELSE /\ page.req.left = 0
                      /\ ~page'.error
                      /\ page'.records = page.req.results
                            + (IF page.req.append THEN page.records ELSE 0)
        /\ (page'.records # page.records)
            => \/ page.req.pc = "details" /\ FetchPokemonsEnds
               \/ RetryClicked /\ page'.records = 0 ]_vars

\* an appended page failed on a detail fetch: the error is shown and the
\* records of the first page are all that pokemonDetails holds
C27_Witness ==
    /\ page.req.pc = "idle"
    /\ page.req.failed
    /\ page.error
    /\ page.fetched = 2
    /\ page.pages = 1
    /\ page.records \in 1..MaxDetails

(***************************************************************************)
(* Toasts, src/App.tsx 85-108, 288-293 and 502-530                         *)
(***************************************************************************)
\* line 103: the display time of a toast, in milliseconds
ToastDuration == 5000

\* line 107: setToasts(prev => prev.filter(toast => toast.id !== id))
removeToast(list, id) == SelectSeq(list, LAMBDA toast : toast.id # id)

\* lines 288-293 and 89-104: a PUSH_NOTIFICATION_RECEIVED message is handled;
\* the id of the new toast is Date.now().toString()
addToast ==
    /\ Len(toasts.made) < MaxToasts
    /\ LET id == toasts.now
           n == Len(toasts.made) + 1
       IN toasts' = [toasts EXCEPT
              !.list = Append(@, [n |-> n, id |-> id]),
              !.timers = @ \cup {[id |-> id, due |-> toasts.now + ToastDuration]},
              !.made = Append(@, toasts.now)]

\* line 510: the close button of the i-th toast shown
ToastDismiss(i) ==
    /\ i \in 1..Len(toasts.list)
    /\ toasts' = [toasts EXCEPT
           !.list = removeToast(@, toasts.list[i].id),
           !.dismissed = @ \cup {toasts.list[i].n}]

\* lines 101-103: a timer set by addToast fires
ToastTimerFires(t) ==
    /\ t \in toasts.timers
    /\ t.due <= toasts.now
    /\ toasts' = [toasts EXCEPT !.list = removeToast(@, t.id), !.timers = @ \ {t}]

\* the clock moves on by a millisecond, or to the time the next timer is due;
\* a timer fires when it is due
TimePasses ==
    /\ \A t \in toasts.timers : toasts.now < t.due
    /\ \/ /\ toasts.ticks < MaxTicks
          /\ toasts' = [toasts EXCEPT !.now = @ + 1, !.ticks = @ + 1]
       \/ \E t \in toasts.timers :
             /\ \A u \in toasts.timers : t.due <= u.due
             /\ toasts' = [toasts EXCEPT !.now = t.due]

ToastInit == WorkerIdle /\ RetryIdle /\ AppIdle /\ ExtraIdle

ToastNext ==
    \/ addToast /\ UNCHANGED <<retryVars, appVars, workerVars, classified, click, registry, api>>
    \/ \E i \in 1..MaxToasts : ToastDismiss(i) /\ UNCHANGED <<retryVars, appVars, workerVars, classified, click, registry, api>>
    \/ \E t \in toasts.timers : ToastTimerFires(t) /\ UNCHANGED <<retryVars, appVars, workerVars, classified, click, registry, api>>
    \/ TimePasses /\ UNCHANGED <<retryVars, appVars, workerVars, classified, click, registry, api>>

SpecToast == ToastInit /\ [][ToastNext]_vars

\* the toast with serial number n is in the list
Displayed(n) == \E i \in 1..Len(toasts.list) : toasts.list[i].n = n

\* C28: a toast that was created is in the list as long as its close button
\* has not been clicked and fewer than 5000 ms have passed since it was
\* created, and is not in the list once its close button has been clicked
\* or more than 5000 ms have passed
C28_ToastShownUntilDismissedOrExpired ==
    \A n \in 1..Len(toasts.made) :
        /\ (n \notin toasts.dismissed /\ toasts.now < toasts.made[n] + 5000) => Displayed(n)
        /\ (n \in toasts.dismissed \/ toasts.now > toasts.made[n] + 5000) => ~Displayed(n)

\* the serial numbers of the toasts in a list
Shown(list) == {list[i].n : i \in 1..Len(list)}

\* C33: a step that takes toasts off the list, be it the close button or
\* a timer, takes off exactly one, and every other toast stays in the list
C33_RemovalTakesOneToast ==
    [][ Shown(toasts'.list) # Shown(toasts.list) /\ Len(toasts'.list) < Len(toasts.list)
          => \E n \in Shown(toasts.list) : Shown(toasts'.list) = Shown(toasts.list) \ {n} ]_vars

Endpoints == {"endpoint-a", "endpoint-b"}

\* what webpush.sendNotification ends with: 201 resolves, the others reject
\* with that statusCode
DeliveryStatuses == {201, 404, 410}

\* Array.prototype.indexOf, by identity: the 0-based index, -1 when absent
indexOf(array, element) ==
    IF \E i \in 1..Len(array) : array[i] = element
    THEN (CHOOSE i \in 1..Len(array) :
              array[i] = element /\ \A j \in 1..(i - 1) : array[j] # element) - 1
    ELSE -1

\* Array.prototype.splice(start, deleteCount): a negative start counts from
\* the end of the array
splice(array, start, deleteCount) ==
    LET from == IF start < 0 THEN (IF Len(array) + start < 0 THEN 0 ELSE Len(array) + start)
                ELSE Min(start, Len(array))
        to == Min(from + deleteCount, Len(array))
    IN SubSeq(array, 1, from) \o SubSeq(array, to + 1, Len(array))

\* lines 29-43: POST /api/subscribe
Subscribe(endpoint) ==
    /\ registry.made < MaxSubscriptions
    /\ LET exists == \E i \in 1..Len(registry.subscriptions) :
                         registry.subscriptions[i].endpoint = endpoint
       IN registry' = [registry EXCEPT
              !.made = @ + 1,
              !.subscriptions = IF exists THEN @
                                ELSE Append(@, [id |-> registry.made + 1, endpoint |-> endpoint])]

\* lines 46-59: POST /api/notify-all starts one delivery per stored subscription
NotifyAll(k) ==
    /\ registry.calls[k].pc = "idle"
    /\ registry' = [registry EXCEPT
           !.calls[k] = [pc |-> "sending",
                         pending |-> {registry.subscriptions[i] :
                                          i \in 1..Len(registry.subscriptions)}]]

\* lines 60-73: one delivery settles; a 410 splices the array
DeliverySettles(k, subscription, status) ==
    /\ registry.calls[k].pc = "sending"
    /\ subscription \in registry.calls[k].pending
    /\ registry' = [registry EXCEPT
           !.calls[k].pending = @ \ {subscription},
           !.settled = [id |-> subscription.id, status |-> status],
           !.subscriptions = IF status = 410
                             THEN splice(@, indexOf(@, subscription), 1)
                             ELSE @]

\* lines 76-84: all deliveries have settled and the response is sent
NotifyResponds(k) ==
    /\ registry.calls[k].pc = "sending"
    /\ registry.calls[k].pending = {}
    /\ registry' = [registry EXCEPT !.calls[k].pc = "done"]

ServerInit == WorkerIdle /\ RetryIdle /\ AppIdle /\ ExtraIdle

ServerNext ==
    \/ \E endpoint \in Endpoints : Subscribe(endpoint) /\ UNCHANGED <<retryVars, appVars, workerVars, classified, click, toasts, api>>
    \/ \E k \in NotifyIds : NotifyAll(k) /\ UNCHANGED <<retryVars, appVars, workerVars, classified, click, toasts, api>>
    \/ \E k \in NotifyIds : \E subscription \in registry.calls[k].pending : \E status \in DeliveryStatuses :
          DeliverySettles(k, subscription, status) /\ UNCHANGED <<retryVars, appVars, workerVars, classified, click, toasts, api>>
    \/ \E k \in NotifyIds : NotifyResponds(k) /\ UNCHANGED <<retryVars, appVars, workerVars, classified, click, toasts, api>>

SpecServer == ServerInit /\ [][ServerNext]_vars

\* the elements of an array
Elements(array) == {array[i] : i \in 1..Len(array)}

\* no two elements of the array have the same endpoint
NoDuplicateEndpoints(array) ==
    \A i, j \in 1..Len(array) : array[i].endpoint = array[j].endpoint => i = j

\* C34: under every interleaving of notify-all and subscribe requests, a
\* subscription leaves the stored list only in the step in which its own
\* delivery settles with status 410, and the stored list never holds two
\* subscriptions with the same endpoint.
C34_RemovedOnlyOnOwn410 ==
    /\ [](NoDuplicateEndpoints(registry.subscriptions))
    /\ [][ \A s \in Elements(registry.subscriptions) \ Elements(registry'.subscriptions) :
               registry'.settled = [id |-> s.id, status |-> 410] ]_vars

(***************************************************************************)
(* fetchPokemons with its list page fetched by fetchWithRetry              *)
(***************************************************************************)
\* App.tsx 38: the default of maxRetries
DefaultMaxRetries == 3

\* line 318: the step that starts fetchPokemons calls fetchWithRetry(url,
\* signal) for the list page; the signal of line 307 is never aborted
ListFetchBegins ==
    IF page'.fetched # page.fetched
      THEN /\ maxRetries' = DefaultMaxRetries
           /\ attempt' = 1
           /\ frPc' = "call"
           /\ aborted' = FALSE
           /\ results' = <<>>
           /\ delays' = <<>>
           /\ netAttempts' = 0
           /\ frOutcome' = None
           /\ abortMark' = <<>>
      ELSE UNCHANGED retryVars

\* lines 318-324: fetchWithRetry has returned or thrown and the await of
\* line 318 resumes; after a return response.json() may still reject. Of the
\* call that is over only the waits it made stay on record.
ListFetchEnds ==
    /\ frPc \in {"returned", "thrown"}
    /\ PageListSettles
    /\ frPc = "thrown" => page'.req.pc = "idle"
    /\ maxRetries' = 0
    /\ attempt' = 1
    /\ frPc' = "idle"
    /\ results' = <<>>
    /\ netAttempts' = 0
    /\ frOutcome' = None
    /\ UNCHANGED <<aborted, delays, abortMark>>

LoadEffect == AppEffect /\ ListFetchBegins /\ UNCHANGED <<workerVars, extraVars>>
LoadEffectRerun == EffectRerun /\ ListFetchBegins /\ UNCHANGED <<workerVars, extraVars>>
LoadIntersect == Intersect /\ ListFetchBegins /\ UNCHANGED <<workerVars, extraVars>>
LoadRetryClicked == handleRetry /\ ListFetchBegins /\ UNCHANGED <<workerVars, extraVars>>
LoadLoopTest == RetryLoopTest /\ UNCHANGED <<appVars, workerVars, extraVars>>
LoadFetchSettles == RetryFetchSettles /\ UNCHANGED <<appVars, workerVars, extraVars>>
LoadDelayElapses == RetryDelayElapses /\ UNCHANGED <<appVars, workerVars, extraVars>>
LoadListEnds == ListFetchEnds /\ UNCHANGED <<workerVars, extraVars>>
LoadDetailSettles == (\E ok \in BOOLEAN : PageDetailSettles(ok)) /\ UNCHANGED <<retryVars, workerVars, extraVars>>
LoadDetailsSettle == PageDetailsSettle /\ UNCHANGED <<retryVars, workerVars, extraVars>>

LoadInit == WorkerIdle /\ RetryIdle /\ AppIdle /\ ExtraIdle

LoadNext ==
    \/ LoadEffect
    \/ LoadEffectRerun
    \/ LoadIntersect
    \/ LoadRetryClicked
    \/ LoadLoopTest
    \/ LoadFetchSettles
    \/ LoadDelayElapses
    \/ LoadListEnds
    \/ LoadDetailSettles
    \/ LoadDetailsSettle

\* React runs the effect after the mount; every network attempt completes,
\* every timer fires, and every await whose promise has settled resumes
LoadFairness ==
    /\ WF_vars(LoadEffect)
    /\ WF_vars(LoadLoopTest)
    /\ WF_vars(LoadFetchSettles)
    /\ WF_vars(LoadDelayElapses)
    /\ WF_vars(LoadListEnds)
    /\ WF_vars(LoadDetailSettles)
    /\ WF_vars(LoadDetailsSettle)

SpecLoad == LoadInit /\ [][LoadNext]_vars /\ LoadFairness

\* C35: every call of fetchPokemons ends; in the step in which it ends, by
\* its success path or by its catch block, the flag it set (loadingMore for an
\* append, loading otherwise) is false; and whenever one of the two flags is
\* true it is false again later, so the ref callback of the last card is not
\* blocked for ever.
C35_CallEndsWithItsFlagCleared ==
    /\ (page.req.pc # "idle") ~> (page.req.pc = "idle")
    /\ [][ FetchPokemonsEnds =>
             IF page.req.append THEN ~page'.loadingMore ELSE ~page'.loading ]_vars
    /\ Busy(page) ~> ~Busy(page)

\* an append, after a first page that loaded, has ended in the catch block
\* before any detail was asked for, its list fetch having waited twice, that
\* is, having made its three attempts; neither flag is set
C35_Witness ==
    /\ page.req.pc = "idle"
    /\ page.fetched = 2
    /\ page.pages = 1
    /\ page.error
    /\ ~page.req.failed
    /\ frPc = "idle"
    /\ Len(delays) = DefaultMaxRetries - 1
    /\ ~page.loading
    /\ ~page.loadingMore

(***************************************************************************)
(* The retry of the catalog sync, public/pokemonWorker.js 133-145, 163-230 *)
(***************************************************************************)
\* the network loses or regains the catalog API
ApiChanges ==
    /\ api' = IF api = "up" THEN "down" ELSE "up"
    /\ UNCHANGED <<classified, click, toasts, registry>>

\* line 180: what the fetch of the list page ends with follows the network:
\* an ok response while the API can be reached, a rejection while it cannot
ListFetchFollowsApi == IF api = "up" THEN run'.pc = "store" ELSE run'.pc = "idle"

ArmFrame == UNCHANGED <<retryVars, appVars, bridgeVars, extraVars>>

\* a request of a controlled window for the catalog is intercepted while the
\* API cannot be reached
ArmFetchEvent ==
    \E i \in FetchIds : FetchEvent(i, CatalogRequest) /\ api = "down" /\ MatchAll # {} /\ ArmFrame
ArmFetchMatch == \E i \in FetchIds : FetchMatch(i) /\ ArmFrame
\* lines 133-145, the host accepting the registration
ArmFetchFails ==
    \E i \in FetchIds : FetchFails(i) /\ syncTags'["pokemon-sync"] > 0 /\ ArmFrame
ArmFetchRelease == \E i \in FetchIds : FetchRelease(i) /\ ArmFrame
\* the host fires the registered task
ArmSyncEvent == SyncEvent("pokemon-sync") /\ ArmFrame
ArmListSettles == SyncListSettles /\ ListFetchFollowsApi /\ ArmFrame
\* the cache storage accepts the list page and the body is a list
ArmListStored == SyncListStored /\ run'.pc = "parse" /\ ArmFrame
ArmListParsed == SyncListParsed /\ run'.pc = "details" /\ ArmFrame
ArmDetailSettles == \E url \in DetailIds : SyncDetailSettles(url) /\ ArmFrame
ArmBroadcast == SyncBroadcast /\ ArmFrame
\* lines 224-226: the timer fires and the host accepts the registration
ArmTimerFires == TimerFires /\ syncTags'["pokemon-sync"] > 0 /\ ArmFrame
ArmApiChanges == ApiChanges /\ UNCHANGED <<retryVars, appVars, workerVars>>

\* the worker is active; each window is closed, open and controlled, or open
\* and not controlled (loaded by a forced reload)
ArmInit ==
    /\ swState = "activated"
    /\ cacheNames = {STATIC_CACHE}
    /\ cacheEntries = NoEntries
    /\ watch = NoRequest
    /\ WorkerQuiet
    /\ clients \in [ClientIds -> {"closed", "controlled", "uncontrolled"}]
    /\ RetryIdle
    /\ AppIdle
    /\ ExtraIdle

ArmNext ==
    \/ ArmFetchEvent
    \/ ArmFetchMatch
    \/ ArmFetchFails
    \/ ArmFetchRelease
    \/ ArmSyncEvent
    \/ ArmListSettles
    \/ ArmListStored
    \/ ArmListParsed
    \/ ArmDetailSettles
    \/ ArmBroadcast
    \/ ArmTimerFires
    \/ ArmApiChanges

\* the host fires registered sync tasks and timers, and every await of a
\* handler resumes
ArmFairness ==
    /\ WF_vars(ArmFetchMatch)
    /\ WF_vars(ArmFetchFails)
    /\ WF_vars(ArmSyncEvent)
    /\ WF_vars(ArmListSettles)
    /\ WF_vars(ArmListStored)
    /\ WF_vars(ArmListParsed)
    /\ WF_vars(ArmDetailSettles)
    /\ WF_vars(ArmBroadcast)
    /\ WF_vars(ArmTimerFires)

SpecArm == ArmInit /\ [][ArmNext]_vars /\ ArmFairness

\* the interception of a catalog request has failed
InterceptedCatalogFailure ==
    \E i \in FetchIds : fetches[i].pc = "done" /\ fetches[i].result = "error"
                            /\ fetches[i].registerCalled

\* a sync run has resolved and every open window holds its SYNC_COMPLETE
SyncCompleteDelivered ==
    /\ run.pc = "idle"
    /\ run.outcome = "resolved"
    /\ \A c \in OpenWindows : "SYNC_COMPLETE" \in inbox[c]

\* C31: once the interception of a catalog request has failed, if the API can
\* be reached from some time on, a catalog-sync run eventually resolves with
\* SYNC_COMPLETE delivered to every open window; and every run that fails at
\* its list fetch arms one more timer, whatever the number of earlier failures.
C31_SyncRetryEventuallyDelivers ==
    /\ [](InterceptedCatalogFailure => (<>[](api = "up") => <>SyncCompleteDelivered))
    /\ [][ (run.pc = "list" /\ run'.pc = "idle") => Len(timers') = Len(timers) + 1 ]_vars

=============================================================================
